---- MODULE Spec2Model ----
(***************************************************************************)
(* Model of the adaptive mask-decision pipeline of backend/app.py:         *)
(* predict (threshold selection, fallback search), post_process_mask       *)
(* (coverage guard, opening/closing, component filter, hole filling) and   *)
(* calculate_metrics.                                                      *)
(*                                                                         *)
(* Arrays are HxW grids.  A probability map is a function from pixels to   *)
(* fixed-point probabilities (Scale units = 1.0); a binary mask is the set *)
(* of its foreground pixels.  Pixel probabilities are multiples of Grain   *)
(* (0.01), so numpy's linear-interpolated percentiles are exact in these   *)
(* units, and mean + std is kept as its floor, which compares with every   *)
(* pixel value exactly as the real number does.                            *)
(***************************************************************************)
EXTENDS Integers, Sequences, FiniteSets, TLC

VARIABLES
    shape,          \* <<rows, cols>> of every array of the current call
    entry,          \* function the caller invoked: "predict", "post_process_mask", ...
    pc,             \* position of the call in the code
    out,            \* predict: out / post_process_mask: probability_map
    relaxed,        \* post_process_mask: relaxed
    threshold,      \* predict: threshold (None before line 269)
    branch,         \* predict: arm of the if/elif/else of lines 269-279 that ran
    mask,           \* predict: mask / post_process_mask: mask / calculate_metrics: mask
    fb_idx,         \* predict: position of the for loop of line 291 (0 = not entered)
    tried,          \* predict: the fallback_thresh values evaluated so far, in order
    arg_mask,       \* post_process_mask: the array the caller passed as mask
    guard,          \* post_process_mask: arm of the if/elif of lines 369-384 that ran
    regions,        \* post_process_mask: components of line 402, by label
    region_i,       \* post_process_mask: i of the loop of line 416
    filtered_mask,  \* post_process_mask: filtered_mask
    kept_regions,   \* post_process_mask: labels kept by the loop (kept_regions counts them)
    stages,         \* stages of the current call that have run, in order
    ret,            \* post_process_mask: the returned array (None before the return)
    metrics,        \* calculate_metrics: the returned dict (None before)
    runs,           \* number of predict calls completed in this process
    first_run,      \* input and result of the first predict call (None while runs = 0)
    intensity_diff, \* detect_abnormal_regions: intensity_diff (None before line 327)
    abnormal_masks, \* detect_abnormal_regions: abnormal_mask1, 2, 3 computed so far
    _model_cache,   \* app.py: _model_cache, model_path -> model object (0 = no entry)
    loads,          \* the model_path of every torch.load that returned, in order
    workers,        \* per request thread of /segment: position, model_path, model
    reports,        \* the committed medical_reports table, by primary key
    session,        \* db.session of the current request: the rows as it holds them
    http            \* the current request of the reports blueprint and its response

\* The state of the segmentation pipeline.
pipeline_vars ==
    <<shape, entry, pc, out, relaxed, threshold, branch, mask, fb_idx, tried,
      arg_mask, guard, regions, region_i, filtered_mask, kept_regions, ret,
      stages, metrics, runs, first_run, intensity_diff, abnormal_masks>>

\* The state of the web service around it: model cache and report store.
service_vars == <<_model_cache, loads, workers, reports, session, http>>

vars == <<pipeline_vars, service_vars>>

None == -1

\* ------------------------------------------------------------------ bounds

GridH == 7
GridW == 7
MaxBlock == 3
MaxRuns == 3
MaxReports == 2

\* ------------------------------------------------------- fixed-point units

\* Pixel probabilities are multiples of Grain (0.01); Scale is 1.0.
Grain == 10 * 10
Scale == 100 * Grain

\* x/10 and x/100 of 1.0, for the decimal literals of the code.
Tenths(x) == (x * Scale) \div 10

Max2(a, b) == IF a >= b THEN a ELSE b
Min2(a, b) == IF a <= b THEN a ELSE b

\* ------------------------------------------------------------------ arrays

\* Indices of an array of the current shape (2-D in the pipeline; 1-D and 3-D
\* arrays are the invalid inputs).
Pix ==
    IF Len(shape) = 2 THEN (1..shape[1]) \X (1..shape[2])
    ELSE IF Len(shape) = 1 THEN {<<i>> : i \in 1..shape[1]}
    ELSE (1..shape[1]) \X (1..shape[2]) \X (1..shape[3])

\* mask.size, out.size
Size ==
    IF Len(shape) = 2 THEN shape[1] * shape[2]
    ELSE IF Len(shape) = 1 THEN shape[1]
    ELSE shape[1] * shape[2] * shape[3]

\* The sum of f over the pixels of S whose value is in V, one value at a time.
RECURSIVE SumValues(_, _, _)
SumValues(V, S, f) ==
    IF V = {} THEN 0
    ELSE LET v == CHOOSE y \in V : TRUE
         IN  v * Cardinality({x \in S : f[x] = v}) + SumValues(V \ {v}, S, f)

SumOver(S, f) == SumValues({f[x] : x \in S}, S, f)

Values(a) == {a[p] : p \in Pix}

\* number of pixels of a whose value is v
Count(a, v) == Cardinality({p \in Pix : a[p] = v})

\* np.max
ArrayMax(a) == CHOOSE v \in Values(a) : \A w \in Values(a) : w <= v

\* element k (0-based) of the sorted flattened array
Kth(a, k) ==
    LET below(v) == Cardinality({p \in Pix : a[p] < v})
        upto(v)  == Cardinality({p \in Pix : a[p] <= v})
    IN  CHOOSE v \in Values(a) : below(v) <= k /\ k < upto(v)

\* np.percentile(a, q), method 'linear': position (n-1)*q/100 in the sorted
\* array, interpolated between its two neighbours.
Percentile(a, q) ==
    LET pos == (Size - 1) * q
        lo  == pos \div 100
        r   == pos % 100
        vlo == Kth(a, lo)
        vhi == IF r = 0 THEN vlo ELSE Kth(a, lo + 1)
    IN  vlo + ((vhi - vlo) * r) \div 100

\* floor(sqrt(x)), by bisection on lo <= sqrt(x) < hi
RECURSIVE SqrtBetween(_, _, _)
SqrtBetween(lo, hi, x) ==
    IF hi - lo <= 1 THEN lo
    ELSE LET mid == (lo + hi) \div 2
         IN  IF mid * mid <= x THEN SqrtBetween(mid, hi, x) ELSE SqrtBetween(lo, mid, x)

ISqrt(x) == SqrtBetween(0, Min2(x, 46340) + 1, x)

\* floor(np.mean(a) + np.std(a)) in fixed-point units.  With k = a / Grain,
\* s = sum k, q = sum k^2, D = n*q - s^2:  mean + std = Grain*(s + sqrt D)/n.
MeanPlusStd(a) ==
    LET n  == Size
        vs == Values(a)
        s  == SumOver(vs, [v \in vs |-> (v \div Grain) * Count(a, v)])
        q  == SumOver(vs, [v \in vs |-> (v \div Grain) * (v \div Grain) * Count(a, v)])
        D  == n * q - s * s
        ip == ISqrt(D)
        fr == CHOOSE r \in 0..(Grain - 1) :
                 /\ 2 * Grain * ip * r + r * r <= Grain * Grain * (D - ip * ip)
                 /\ \/ r = Grain - 1
                    \/ 2 * Grain * ip * (r + 1) + (r + 1) * (r + 1)
                           > Grain * Grain * (D - ip * ip)
    IN  (Grain * s + Grain * ip + fr) \div n

\* (a > t).astype(np.uint8)
Above(a, t) == {p \in Pix : a[p] > t}

\* ------------------------------------------------- threshold selection

\* Mutant of ThresholdDecision: the low-confidence arm reads the 90th percentile.
ThresholdDecision_Low90(a) ==
    IF ArrayMax(a) < Tenths(3)
        THEN [strategy |-> "LOW_CONFIDENCE",
              value    |-> Max2(Tenths(1), Percentile(a, 90))]
    ELSE IF Percentile(a, 95) > Tenths(9)
        THEN [strategy |-> "OVER_SEGMENTED",
              value    |-> Max2(Tenths(7), Percentile(a, 95))]
    ELSE [strategy |-> "NORMAL",
          value    |-> Max2(Tenths(3), Min2(Tenths(7), MeanPlusStd(a)))]

\* Mutant of ThresholdDecision: the over-segmentation test reads the maximum.
ThresholdDecision_OverByMax(a) ==
    IF ArrayMax(a) < Tenths(3)
        THEN [strategy |-> "LOW_CONFIDENCE",
              value    |-> Max2(Tenths(1), Percentile(a, 80))]
    ELSE IF ArrayMax(a) > Tenths(9)
        THEN [strategy |-> "OVER_SEGMENTED",
              value    |-> Max2(Tenths(7), ArrayMax(a))]
    ELSE [strategy |-> "NORMAL",
          value    |-> Max2(Tenths(3), Min2(Tenths(7), MeanPlusStd(a)))]

\* Mutant of ThresholdDecision: the normal arm is not clamped from above.
ThresholdDecision_NoUpperClamp(a) ==
    IF ArrayMax(a) < Tenths(3)
        THEN [strategy |-> "LOW_CONFIDENCE",
              value    |-> Max2(Tenths(1), Percentile(a, 80))]
    ELSE IF Percentile(a, 95) > Tenths(9)
        THEN [strategy |-> "OVER_SEGMENTED",
              value    |-> Max2(Tenths(7), Percentile(a, 95))]
    ELSE [strategy |-> "NORMAL",
          value    |-> Max2(Tenths(3), MeanPlusStd(a))]

\* Mutant of ThresholdDecision: threshold is a module-level variable and the
\* normal arm assigns it only while it is unset, so a call that takes the normal
\* arm reuses what the call before it left.
ThresholdDecision_Stale(a) ==
    IF ArrayMax(a) < Tenths(3)
        THEN [strategy |-> "LOW_CONFIDENCE",
              value    |-> Max2(Tenths(1), Percentile(a, 80))]
    ELSE IF Percentile(a, 95) > Tenths(9)
        THEN [strategy |-> "OVER_SEGMENTED",
              value    |-> Max2(Tenths(7), Percentile(a, 95))]
    ELSE [strategy |-> "NORMAL",
          value    |-> IF threshold # None THEN threshold
                       ELSE Max2(Tenths(3), Min2(Tenths(7), MeanPlusStd(a)))]

\* The if/elif/else of predict that chooses the threshold: the arm that runs
\* on out and the threshold it assigns.
ThresholdDecision(a) ==
    IF ArrayMax(a) < Tenths(3)
        THEN [strategy |-> "LOW_CONFIDENCE",
              value    |-> Max2(Tenths(1), Percentile(a, 80))]
    ELSE IF Percentile(a, 95) > Tenths(9)
        THEN [strategy |-> "OVER_SEGMENTED",
              value    |-> Max2(Tenths(7), Percentile(a, 95))]
    ELSE [strategy |-> "NORMAL",
          value    |-> Max2(Tenths(3), Min2(Tenths(7), MeanPlusStd(a)))]

\* Mutant of FallbackCandidates: the scaled candidates in ascending order.
FallbackCandidates_Ascending(t) ==
    << (t * 2) \div 10, (t * 4) \div 10, (t * 6) \div 10, (t * 8) \div 10, Tenths(1) >>

\* Mutant of FallbackCandidates: a sixth candidate, threshold * 0.1.
FallbackCandidates_Six(t) ==
    << (t * 8) \div 10, (t * 6) \div 10, (t * 4) \div 10, (t * 2) \div 10,
       t \div 10, Tenths(1) >>

\* Mutant of FallbackCandidates: the five values sorted in descending order.
FallbackCandidates_Sorted(t) ==
    IF (t * 2) \div 10 < Tenths(1)
        THEN << (t * 8) \div 10, (t * 6) \div 10, (t * 4) \div 10, Tenths(1), (t * 2) \div 10 >>
        ELSE << (t * 8) \div 10, (t * 6) \div 10, (t * 4) \div 10, (t * 2) \div 10, Tenths(1) >>

\* The list the for loop of predict iterates over.
FallbackCandidates(t) ==
    << (t * 8) \div 10, (t * 6) \div 10, (t * 4) \div 10, (t * 2) \div 10, Tenths(1) >>

\* ------------------------------------------------------------ morphology

\* The 3x3 window around p, clipped to the image.
Window(p) ==
    (Max2(1, p[1] - 1)..Min2(shape[1], p[1] + 1))
        \X (Max2(1, p[2] - 1)..Min2(shape[2], p[2] + 1))

\* cv2.erode / cv2.dilate with the 3x3 kernel of ones and the default border
\* (pixels outside the image never erode and never dilate).
Erode(m) == {p \in m : Window(p) \subseteq m}
Dilate(m) == UNION {Window(p) : p \in m}

\* Mutant of MorphClose: the dilation without the erosion after it.
MorphClose_DilateOnly(m) == Dilate(m)

\* cv2.morphologyEx(MORPH_OPEN) then cv2.morphologyEx(MORPH_CLOSE), 1 iteration each.
MorphOpen(m) == Dilate(Erode(m))
MorphClose(m) == Erode(Dilate(m))
OpenClose(m) == MorphClose(MorphOpen(m))

\* ---------------------------------------------------- connected components

Cross(p) == {q \in Window(p) : q[1] = p[1] \/ q[2] = p[2]}

\* Neighbourhood of p (p included) for the given connectivity.
Nbrs(p, conn) == IF conn = 8 THEN Window(p) ELSE Cross(p)

RECURSIVE Grow(_, _, _, _)
Grow(acc, frontier, m, conn) ==
    IF frontier = {} THEN acc
    ELSE LET next == ((UNION {Nbrs(p, conn) : p \in frontier}) \cap m) \ acc
         IN  Grow(acc \cup next, next, m, conn)

\* first foreground pixel in raster order
FirstPix(m) ==
    CHOOSE p \in m : \A q \in m : p[1] < q[1] \/ (p[1] = q[1] /\ p[2] <= q[2])

RECURSIVE LabelFrom(_, _)
LabelFrom(m, conn) ==
    IF m = {} THEN << >>
    ELSE LET comp == Grow({FirstPix(m)}, {FirstPix(m)}, m, conn)
         IN  <<comp>> \o LabelFrom(m \ comp, conn)

\* Mutant of ConnectedComponents: 4-connectivity.
ConnectedComponents_Four(m) == LabelFrom(m, 4)

\* cv2.connectedComponentsWithStats(mask, connectivity=8) and
\* cv2.connectedComponents(mask) (default connectivity 8): element i is the
\* pixel set of label i; num_labels = Len + 1.
ConnectedComponents(m) == LabelFrom(m, 8)

\* Mutant of FillHoles: the mask is returned as it is.
FillHoles_Skipped(m) == m

\* scipy.ndimage.binary_fill_holes: background not connected (4-neighbours) to
\* the outside of the image becomes foreground.
OnBorder(p) == p[1] = 1 \/ p[1] = shape[1] \/ p[2] = 1 \/ p[2] = shape[2]

FillHoles(m) ==
    LET bg   == Pix \ m
        rim  == {p \in bg : OnBorder(p)}
    IN  Pix \ Grow(rim, rim, bg, 4)

\* ------------------------------------------------------ post_process_mask

\* Mutant of GuardArm: the two coverage fractions exchanged.
GuardArm_FractionsSwapped(m, rel) ==
    IF ~rel /\ 10 * Cardinality(m) > 5 * Size THEN "strict"
    ELSE IF rel /\ 10 * Cardinality(m) > 3 * Size THEN "relaxed"
    ELSE "skipped"

\* The arm of the if/elif of the coverage guard that runs:
\* mask_area > total_area * 0.3 when not relaxed, > total_area * 0.5 when relaxed.
GuardArm(m, rel) ==
    IF ~rel /\ 10 * Cardinality(m) > 3 * Size THEN "strict"
    ELSE IF rel /\ 10 * Cardinality(m) > 5 * Size THEN "relaxed"
    ELSE "skipped"

\* Mutant of GuardMask: the relaxed arm keeps the mask it was given.
GuardMask_RelaxedKeeps(m, a, rel) ==
    IF GuardArm(m, rel) = "strict"
        THEN LET top5 == Above(a, Percentile(a, 95))
             IN  IF 100 * Cardinality(top5) > 15 * Size
                     THEN Above(a, Percentile(a, 98))
                     ELSE top5
    ELSE m

\* Mutant of GuardMask: the replacement keeps probability >= percentile.
GuardMask_Inclusive(m, a, rel) ==
    IF GuardArm(m, rel) = "strict"
        THEN {p \in Pix : a[p] >= Percentile(a, 95)}
    ELSE IF GuardArm(m, rel) = "relaxed"
        THEN {p \in Pix : a[p] >= Percentile(a, 90)}
    ELSE m

\* The mask after the coverage guard.
GuardMask(m, a, rel) ==
    IF GuardArm(m, rel) = "strict"
        THEN LET top5 == Above(a, Percentile(a, 95))
             IN  IF 100 * Cardinality(top5) > 15 * Size
                     THEN Above(a, Percentile(a, 98))
                     ELSE top5
    ELSE IF GuardArm(m, rel) = "relaxed"
        THEN Above(a, Percentile(a, 90))
    ELSE m

\* Mutant of AreaOk: no upper bound on the area.
AreaOk_NoUpper(area, rel) ==
    IF rel THEN 10000 * area > Size ELSE 10000 * area > 5 * Size

\* Mutant of AreaOk: max_area = total_area * 0.01 in both modes.
AreaOk_MaxOnePercent(area, rel) ==
    IF rel THEN 10000 * area > Size /\ 100 * area < Size
    ELSE 10000 * area > 5 * Size /\ 100 * area < Size

\* min_area < area < max_area, with min_area = total_area * 0.0001 (0.0005) and
\* max_area = total_area * 0.2 (0.1) in relaxed (strict) mode.
AreaOk(area, rel) ==
    IF rel THEN 10000 * area > Size /\ 10 * area < 2 * Size
    ELSE 10000 * area > 5 * Size /\ 10 * area < Size

\* np.max(probability_map[region_mask])
RegionMax(a, reg) == CHOOSE v \in {a[p] : p \in reg} : \A q \in reg : a[q] <= v

\* mean_prob > x/10 for mean_prob = np.mean(probability_map[region_mask])
RegionMeanAbove(a, reg, x) ==
    10 * SumOver(reg, a) > x * Scale * Cardinality(reg)

\* Mutant of GateOk: the gate tests the mean alone.
GateOk_MeanOnly(a, reg, rel) ==
    IF rel THEN RegionMeanAbove(a, reg, 3) ELSE RegionMeanAbove(a, reg, 6)

\* Mutant of GateOk: either test passes the gate.
GateOk_Either(a, reg, rel) ==
    IF rel THEN RegionMeanAbove(a, reg, 3) \/ RegionMax(a, reg) > Tenths(5)
    ELSE RegionMeanAbove(a, reg, 6) \/ RegionMax(a, reg) > Tenths(8)

\* The confidence test of the loop body.
GateOk(a, reg, rel) ==
    IF rel THEN RegionMeanAbove(a, reg, 3) /\ RegionMax(a, reg) > Tenths(5)
    ELSE RegionMeanAbove(a, reg, 6) /\ RegionMax(a, reg) > Tenths(8)

\* Whether the loop body keeps the region.
KeepRegion(a, reg, rel) == AreaOk(Cardinality(reg), rel) /\ GateOk(a, reg, rel)

\* ------------------------------------------------ detect_abnormal_regions

\* np.percentile(a, q / 10): the same with q in tenths of a percent.
PercentileTenth(a, q) ==
    LET pos == (Size - 1) * q
        lo  == pos \div 1000
        r   == pos % 1000
        vlo == Kth(a, lo)
        vhi == IF r = 0 THEN vlo ELSE Kth(a, lo + 1)
    IN  vlo + ((vhi - vlo) * r) \div 1000

\* Index i of an axis of length n under cv2's default border BORDER_REFLECT_101.
Reflect101(i, n) == IF i < 1 THEN 2 - i ELSE IF i > n THEN 2 * n - i ELSE i

\* Value of a (in units of Grain) at row r, column c, reflected at the border.
At101(a, r, c) == a[<<Reflect101(r, shape[1]), Reflect101(c, shape[2])>>] \div Grain

\* cv2.Sobel(a, dx=1, dy=0, ksize=3) and cv2.Sobel(a, dx=0, dy=1, ksize=3) at p.
SobelX(a, p) ==
    (At101(a, p[1] - 1, p[2] + 1) - At101(a, p[1] - 1, p[2] - 1))
        + 2 * (At101(a, p[1], p[2] + 1) - At101(a, p[1], p[2] - 1))
        + (At101(a, p[1] + 1, p[2] + 1) - At101(a, p[1] + 1, p[2] - 1))

SobelY(a, p) ==
    (At101(a, p[1] + 1, p[2] - 1) - At101(a, p[1] - 1, p[2] - 1))
        + 2 * (At101(a, p[1] + 1, p[2]) - At101(a, p[1] - 1, p[2]))
        + (At101(a, p[1] + 1, p[2] + 1) - At101(a, p[1] - 1, p[2] + 1))

\* gradient_magnitude ** 2.  The arrays of this function have (n - 1) * 85 and
\* (n - 1) * 90 divisible by 100, so np.percentile returns an element of the
\* array and magnitude > percentile is the same test on the squares.
GradientSquared(a) == [p \in Pix |-> SobelX(a, p) * SobelX(a, p) + SobelY(a, p) * SobelY(a, p)]

\* Mutant of CombineMasks: the logical AND of the three masks.
CombineMasks_And(m1, m2, m3) == (m1 \cap m2) \cap m3

\* np.logical_or(np.logical_or(abnormal_mask1, abnormal_mask2), abnormal_mask3)
CombineMasks(m1, m2, m3) == (m1 \cup m2) \cup m3

\* Mutant of LimitCombined: the replacement uses the median.
LimitCombined_Median(combined, a) ==
    IF 100 * Cardinality(combined) > 15 * Size
        THEN Above(a, Percentile(a, 50))
        ELSE combined

\* Mutant of LimitCombined: the 99.5th-percentile mask is added to the OR.
LimitCombined_KeepsOr(combined, a) ==
    IF 100 * Cardinality(combined) > 15 * Size
        THEN combined \cup Above(a, PercentileTenth(a, 995))
        ELSE combined

\* lines 353-356: np.sum(combined_mask) > combined_mask.size * 0.15
LimitCombined(combined, a) ==
    IF 100 * Cardinality(combined) > 15 * Size
        THEN Above(a, PercentileTenth(a, 995))
        ELSE combined

\* ------------------------------------------------------ calculate_metrics

\* round(num / den) to the nearest integer, ties to even (Python's round).
RoundHalfEven(num, den) ==
    LET q == num \div den
        r == num % den
    IN  IF 2 * r < den THEN q
        ELSE IF 2 * r > den THEN q + 1
        ELSE IF q % 2 = 0 THEN q ELSE q + 1

RECURSIVE MaxCard(_)
MaxCard(seq) ==
    IF seq = << >> THEN 0 ELSE Max2(Cardinality(Head(seq)), MaxCard(Tail(seq)))

\* Mutant of calculate_metrics: the percentage is rounded to 1 decimal.
calculate_metrics_OneDecimal(m) ==
    LET tumor_pixels == Cardinality(m)
        comps        == ConnectedComponents(m)
    IN  [affected_percentage |-> 10 * RoundHalfEven(tumor_pixels * 1000, Size),
         tumor_area_mm2      |-> tumor_pixels,
         largest_region_mm2  |-> IF tumor_pixels > 0 THEN MaxCard(comps) ELSE 0,
         num_regions         |-> IF tumor_pixels > 0 THEN Len(comps) ELSE 0]

\* Mutant of calculate_metrics: the fraction is not scaled to a percentage.
calculate_metrics_Unscaled(m) ==
    LET tumor_pixels == Cardinality(m)
        comps        == ConnectedComponents(m)
    IN  [affected_percentage |-> RoundHalfEven(tumor_pixels * 100, Size),
         tumor_area_mm2      |-> tumor_pixels,
         largest_region_mm2  |-> IF tumor_pixels > 0 THEN MaxCard(comps) ELSE 0,
         num_regions         |-> IF tumor_pixels > 0 THEN Len(comps) ELSE 0]

\* Mutant of calculate_metrics: num_regions counts the background label too.
calculate_metrics_CountsBackground(m) ==
    LET tumor_pixels == Cardinality(m)
        comps        == ConnectedComponents(m)
    IN  [affected_percentage |-> RoundHalfEven(tumor_pixels * 10000, Size),
         tumor_area_mm2      |-> tumor_pixels,
         largest_region_mm2  |-> IF tumor_pixels > 0 THEN MaxCard(comps) ELSE 0,
         num_regions         |-> Len(comps) + 1]

\* The dict calculate_metrics returns.  affected_percentage is in hundredths of
\* a percent (2 decimals), areas in mm2 at pixel_spacing_mm = 1.0.
calculate_metrics(m) ==
    LET tumor_pixels == Cardinality(m)
        total_pixels == Size
        comps        == ConnectedComponents(m)
    IN  IF total_pixels = 0
            THEN [affected_percentage |-> 0, tumor_area_mm2 |-> 0,
                  largest_region_mm2 |-> 0, num_regions |-> None]
            ELSE [affected_percentage |-> RoundHalfEven(tumor_pixels * 10000, total_pixels),
                  tumor_area_mm2      |-> tumor_pixels,
                  largest_region_mm2  |-> IF tumor_pixels > 0 THEN MaxCard(comps) ELSE 0,
                  num_regions         |-> IF tumor_pixels > 0
                                              THEN Max2(0, (Len(comps) + 1) - 1) ELSE 0]

\* ------------------------------------------------------------------ inputs

\* Probability levels of the input maps, in percent.
Levels == {0, 3, 5, 7, 10, 20, 30, 40, 60, 80, 90, 95, 100}

Rect(r0, c0, h, w) == (r0..(r0 + h - 1)) \X (c0..(c0 + w - 1))

\* Rectangular blocks of height <= MaxBlock and any width: at the top-left
\* corner, on an edge, one pixel away from the border, or further inside.
Blocks ==
    {Rect(r0, c0, h, w) \cap Pix :
        r0 \in 1..3, c0 \in 1..3, h \in 1..MaxBlock, w \in 1..(shape[2] - 1)}

BlockMap(bg, fg, blk) == [p \in Pix |-> IF p \in blk THEN fg * Grain ELSE bg * Grain]

\* Uniform maps and maps with one block on a uniform background.
\* The bottom-right 2x2 corner.
FarCorner == Rect(shape[1] - 1, shape[2] - 1, 2, 2)

\* Blocks of width <= MaxBlock + 1.
SmallBlocks ==
    {Rect(r0, c0, h, w) \cap Pix :
        r0 \in 1..3, c0 \in 1..3, h \in 1..MaxBlock, w \in 1..(MaxBlock + 1)}

CornerBlocks == {Rect(1, 1, h, w) : h \in 1..MaxBlock, w \in 1..(MaxBlock + 1)}

ProbMaps ==
    {BlockMap(bg, bg, {}) : bg \in Levels}
        \cup UNION {{BlockMap(bg, fg, blk) : fg \in Levels \ {bg}, blk \in Blocks} :
                        bg \in Levels}

\* ------------------------------------------------- the web service: data

\* model_path values of /segment requests; the first is the default of line 534.
ModelPaths ==
    {"resunet50_brain_segmentation.pth", "unet_brain.pth", "missing.pth", "corrupt.pth"}

\* The paths that exist (os.path.exists, line 85) and that torch.load reads
\* without raising (line 90).
ReadableFiles == ModelPaths \ {"missing.pth", "corrupt.pth"}

\* The threads of the server that run segment; the development server of
\* line 590 starts one thread per request.
Requests == 1..MaxRuns

\* The service before its first request: empty cache, empty table.
ServiceIdle ==
    /\ _model_cache = [p \in ModelPaths |-> 0]
    /\ loads = << >>
    /\ workers = [w \in Requests |-> [pc |-> "idle", model_path |-> "", model |-> 0]]
    /\ reports = << >>
    /\ session = << >>
    /\ http = [pc |-> "idle", route |-> "", token |-> [kind |-> "none", sub |-> "", role |-> "", age |-> 0],
               report_id |-> 0, data |-> [doctor_review |-> 0, ai_generated_report |-> 0],
               user |-> [role |-> "none", id |-> 0], status |-> 0]

\* ----------------------------------------------------------------- actions

\* The locals of a call before its first statement.
Fresh ==
    /\ threshold = None /\ branch = "none" /\ fb_idx = 0
    /\ tried = << >> /\ guard = "none" /\ regions = << >>
    /\ region_i = 0 /\ filtered_mask = None /\ kept_regions = {} /\ ret = None
    /\ stages = << >> /\ metrics = None
    /\ intensity_diff = None /\ abnormal_masks = << >>

Stage(name) == stages' = Append(stages, name)

\* predict, line 248: np.min(out) of a zero-size array raises ValueError, which
\* segment (lines 551-554) turns into the 500 response.  predict has no other
\* test of the size or the number of dimensions of out.
predict_raise ==
    /\ pc = "select"
    /\ Size = 0
    /\ pc' = "failed"
    /\ Stage("raise")
    /\ UNCHANGED service_vars
    /\ UNCHANGED <<shape, entry, out, relaxed, threshold, branch, mask, fb_idx, tried,
                   arg_mask, guard, regions, region_i, filtered_mask, kept_regions, ret,
                   metrics, runs, first_run, intensity_diff, abnormal_masks>>

\* predict, lines 262-279: the threshold candidates and the if/elif/else.
predict_select ==
    /\ pc = "select"
    /\ Size > 0
    /\ threshold' = ThresholdDecision(out).value
    /\ branch' = ThresholdDecision(out).strategy
    /\ pc' = "mask"
    /\ Stage("select")
    /\ UNCHANGED service_vars
    /\ UNCHANGED <<shape, entry, out, relaxed, mask, fb_idx, tried, arg_mask, guard,
                   regions, region_i, filtered_mask, kept_regions, ret, metrics,
                   runs, first_run, intensity_diff, abnormal_masks>>

\* predict, lines 282-290: the initial mask and the test that enters the loop.
predict_mask ==
    /\ pc = "mask"
    /\ mask' = Above(out, threshold)
    /\ IF Cardinality(mask') = 0
          THEN pc' = "fallback" /\ fb_idx' = 1
          ELSE pc' = "call_pp" /\ fb_idx' = fb_idx
    /\ Stage("mask")
    /\ UNCHANGED service_vars
    /\ UNCHANGED <<shape, entry, out, relaxed, threshold, branch, tried, arg_mask, guard,
                   regions, region_i, filtered_mask, kept_regions, ret, metrics,
                   runs, first_run, intensity_diff, abnormal_masks>>

\* predict, lines 291-298: one iteration of the fallback loop.
predict_fallback ==
    /\ pc = "fallback"
    /\ LET fallback_thresh == FallbackCandidates(threshold)[fb_idx]
           pixels == Cardinality(Above(out, fallback_thresh))
       IN  /\ mask' = Above(out, fallback_thresh)
           /\ tried' = Append(tried, fallback_thresh)
           /\ IF pixels > 0
                 THEN threshold' = fallback_thresh /\ pc' = "call_pp" /\ fb_idx' = fb_idx
                 ELSE /\ threshold' = threshold
                      /\ IF fb_idx = Len(FallbackCandidates(threshold))
                            THEN pc' = "call_pp" /\ fb_idx' = fb_idx
                            ELSE pc' = "fallback" /\ fb_idx' = fb_idx + 1
    /\ Stage("fallback")
    /\ UNCHANGED service_vars
    /\ UNCHANGED <<shape, entry, out, relaxed, branch, arg_mask, guard,
                   regions, region_i, filtered_mask, kept_regions, ret, metrics,
                   runs, first_run, intensity_diff, abnormal_masks>>

\* predict, line 301: the call post_process_mask(mask, out, relaxed=True).
predict_call_pp ==
    /\ pc = "call_pp"
    /\ arg_mask' = mask
    /\ relaxed' = TRUE
    /\ pc' = "pp_guard"
    /\ Stage("call_pp")
    /\ UNCHANGED service_vars
    /\ UNCHANGED <<shape, entry, out, threshold, branch, mask, fb_idx, tried, guard,
                   regions, region_i, filtered_mask, kept_regions, ret, metrics,
                   runs, first_run, intensity_diff, abnormal_masks>>

\* Mutant of pp_guard: the mask is opened and closed before the guard
\* measures it.
pp_guard_AfterCleaning ==
    /\ pc = "pp_guard"
    /\ mask' = GuardMask(OpenClose(mask), out, relaxed)
    /\ guard' = GuardArm(OpenClose(mask), relaxed)
    /\ pc' = "pp_morph"
    /\ Stage("guard")
    /\ UNCHANGED service_vars
    /\ UNCHANGED <<shape, entry, out, relaxed, threshold, branch, fb_idx, tried, arg_mask,
                   regions, region_i, filtered_mask, kept_regions, ret, metrics,
                   runs, first_run, intensity_diff, abnormal_masks>>

\* Mutant of pp_guard: the replacement is written into the caller's array.
pp_guard_InPlace ==
    /\ pc = "pp_guard"
    /\ mask' = GuardMask(mask, out, relaxed)
    /\ arg_mask' = mask'
    /\ guard' = GuardArm(mask, relaxed)
    /\ pc' = "pp_morph"
    /\ Stage("guard")
    /\ UNCHANGED service_vars
    /\ UNCHANGED <<shape, entry, out, relaxed, threshold, branch, fb_idx, tried,
                   regions, region_i, filtered_mask, kept_regions, ret, metrics,
                   runs, first_run, intensity_diff, abnormal_masks>>

\* post_process_mask, lines 364-384: the global-coverage guard.
pp_guard ==
    /\ pc = "pp_guard"
    /\ mask' = GuardMask(mask, out, relaxed)
    /\ guard' = GuardArm(mask, relaxed)
    /\ pc' = "pp_morph"
    /\ Stage("guard")
    /\ UNCHANGED service_vars
    /\ UNCHANGED <<shape, entry, out, relaxed, threshold, branch, fb_idx, tried, arg_mask,
                   regions, region_i, filtered_mask, kept_regions, ret, metrics,
                   runs, first_run, intensity_diff, abnormal_masks>>

\* Mutant of pp_morph: no return on an empty mask.
pp_morph_NoEarlyReturn ==
    /\ pc = "pp_morph"
    /\ mask' = OpenClose(mask)
    /\ pc' = "pp_label"
    /\ Stage("morph")
    /\ UNCHANGED service_vars
    /\ UNCHANGED <<shape, entry, out, relaxed, threshold, branch, fb_idx, tried, arg_mask,
                   guard, regions, region_i, filtered_mask, kept_regions, ret, metrics,
                   runs, first_run, intensity_diff, abnormal_masks>>

\* post_process_mask, lines 386-399: the two empty-mask returns around the
\* opening and closing.
pp_morph ==
    /\ pc = "pp_morph"
    /\ IF Cardinality(mask) = 0
          THEN mask' = mask /\ ret' = mask /\ pc' = "pp_return" /\ Stage("empty")
          ELSE /\ mask' = OpenClose(mask)
               /\ IF Cardinality(mask') = 0
                     THEN ret' = mask' /\ pc' = "pp_return"
                     ELSE ret' = ret /\ pc' = "pp_label"
               /\ Stage("morph")
    /\ UNCHANGED service_vars
    /\ UNCHANGED <<shape, entry, out, relaxed, threshold, branch, fb_idx, tried, arg_mask,
                   guard, regions, region_i, filtered_mask, kept_regions, metrics,
                   runs, first_run, intensity_diff, abnormal_masks>>

\* post_process_mask, lines 402-414: labelling and the empty filtered_mask.
pp_label ==
    /\ pc = "pp_label"
    /\ regions' = ConnectedComponents(mask)
    /\ filtered_mask' = {}
    /\ kept_regions' = {}
    /\ region_i' = 1
    /\ pc' = "pp_filter"
    /\ Stage("label")
    /\ UNCHANGED service_vars
    /\ UNCHANGED <<shape, entry, out, relaxed, threshold, branch, mask, fb_idx, tried,
                   arg_mask, guard, ret, metrics, runs, first_run, intensity_diff, abnormal_masks>>

\* post_process_mask, lines 416-433: one iteration of the per-region loop.
pp_filter ==
    /\ pc = "pp_filter"
    /\ region_i <= Len(regions)
    /\ IF KeepRegion(out, regions[region_i], relaxed)
          THEN /\ filtered_mask' = filtered_mask \cup regions[region_i]
               /\ kept_regions' = kept_regions \cup {region_i}
          ELSE UNCHANGED <<filtered_mask, kept_regions>>
    /\ region_i' = region_i + 1
    /\ pc' = IF region_i = Len(regions) THEN "pp_fill" ELSE "pp_filter"
    /\ Stage("filter")
    /\ UNCHANGED service_vars
    /\ UNCHANGED <<shape, entry, out, relaxed, threshold, branch, mask, fb_idx, tried,
                   arg_mask, guard, regions, ret, metrics, runs, first_run, intensity_diff, abnormal_masks>>

\* post_process_mask, lines 435-441: hole filling and the return.
pp_fill ==
    /\ pc = "pp_fill"
    /\ filtered_mask' = IF filtered_mask # {} THEN FillHoles(filtered_mask)
                        ELSE filtered_mask
    /\ ret' = filtered_mask'
    /\ pc' = "pp_return"
    /\ Stage("fill")
    /\ UNCHANGED service_vars
    /\ UNCHANGED <<shape, entry, out, relaxed, threshold, branch, mask, fb_idx, tried,
                   arg_mask, guard, regions, region_i, kept_regions, metrics,
                   runs, first_run, intensity_diff, abnormal_masks>>

\* predict, lines 301-307: mask = <returned value>; return mask.
predict_return ==
    /\ pc = "pp_return"
    /\ entry = "predict"
    /\ mask' = ret
    /\ pc' = "metrics"
    /\ Stage("return")
    /\ UNCHANGED service_vars
    /\ UNCHANGED <<shape, entry, out, relaxed, threshold, branch, fb_idx, tried, arg_mask,
                   guard, regions, region_i, filtered_mask, kept_regions, ret, metrics,
                   runs, first_run, intensity_diff, abnormal_masks>>

\* segment, line 558 (or a direct call): metrics = calculate_metrics(mask).
segment_metrics ==
    /\ pc = "metrics"
    /\ metrics' = calculate_metrics(mask)
    /\ pc' = "done"
    /\ Stage("metrics")
    /\ UNCHANGED service_vars
    /\ UNCHANGED <<shape, entry, out, relaxed, threshold, branch, mask, fb_idx, tried,
                   arg_mask, guard, regions, region_i, filtered_mask, kept_regions, ret,
                   runs, first_run, intensity_diff, abnormal_masks>>

\* -------------------------------------------------- the live path: predict

Init ==
    /\ shape = <<GridH, GridW>>
    /\ entry = "predict"
    /\ pc = "select"
    /\ out \in ProbMaps
    /\ relaxed = FALSE
    /\ mask = {}
    /\ arg_mask = None
    /\ Fresh
    /\ ServiceIdle
    /\ runs = 0
    /\ first_run = None

Next ==
    \/ predict_select
    \/ predict_mask
    \/ predict_fallback
    \/ predict_call_pp
    \/ pp_guard
    \/ pp_morph
    \/ pp_label
    \/ pp_filter
    \/ pp_fill
    \/ predict_return
    \/ segment_metrics

Spec == Init /\ [][Next]_vars

\* ------------------------------------- post_process_mask called directly

\* Shapes of the arrays passed to post_process_mask.
PPShapes == {<<GridH, GridW>>, <<GridH - 2, GridW + 1>>}

\* Every other column: more than 30% of the image, erased by the opening.
Stripes == {p \in Pix : p[2] % 2 = 1}

\* Masks a caller passes: empty, full, one block, everything but a block, a
\* block together with the far corner, stripes.
PPMasks ==
    {{}, Pix, Stripes} \cup SmallBlocks
        \cup {Pix \ b : b \in CornerBlocks}
        \cup {b \cup FarCorner : b \in CornerBlocks}

PPLevels == {0, 20, 30, 50, 60, 80, 100}

PPMapBlocks == {Rect(1, 1, 1, 2), Rect(1, 1, 2, 2), Rect(3, 3, MaxBlock, MaxBlock) \cap Pix}

\* The uniform map of all 0.95.
Uniform95 == BlockMap(95, 95, {})

PPMaps ==
    {BlockMap(bg, bg, {}) : bg \in PPLevels} \cup {Uniform95}
        \cup UNION {{BlockMap(bg, fg, blk) : fg \in PPLevels \ {bg}, blk \in PPMapBlocks} :
                        bg \in PPLevels}

InitPP ==
    /\ shape \in PPShapes
    /\ entry = "post_process_mask"
    /\ pc = "pp_guard"
    /\ out \in PPMaps
    /\ relaxed \in BOOLEAN
    /\ mask \in PPMasks
    /\ arg_mask = mask
    /\ Fresh
    /\ ServiceIdle
    /\ runs = 0
    /\ first_run = None

NextPP ==
    \/ pp_guard
    \/ pp_morph
    \/ pp_label
    \/ pp_filter
    \/ pp_fill

SpecPP == InitPP /\ [][NextPP]_vars

\* ------------------- post_process_mask on one region of area 0.01 * T

\* An image of T = 100 * MaxBlock^2 pixels, so that 0.01 * T = MaxBlock^2.
RegionShape == <<10 * MaxBlock, 10 * MaxBlock>>
RegionArea == MaxBlock * MaxBlock

\* Single 8-connected regions of RegionArea pixels: solid squares (in a corner,
\* one pixel from the border, inside), one-pixel-wide lines, and a square with
\* one corner pixel moved to the end of its first row.
RegionMasks ==
    {Rect(r, c, MaxBlock, MaxBlock) : r \in {1, 2, 4}, c \in {1, 2, 4}}
        \cup {Rect(r, c, 1, RegionArea) : r \in {1, 4}, c \in {1, 4}}
        \cup {Rect(r, c, RegionArea, 1) : r \in {1, 4}, c \in {1, 4}}
        \cup {(Rect(r, c, MaxBlock, MaxBlock) \ {<<r + MaxBlock - 1, c>>})
                  \cup {<<r, c + MaxBlock>>} : r \in {1, 4}, c \in {1, 4}}

LastPix(m) ==
    CHOOSE p \in m : \A q \in m : p[1] > q[1] \/ (p[1] = q[1] /\ p[2] >= q[2])

\* Probabilities with mean 0.9 over the region: 0.9 everywhere, or 1.0 on its
\* first pixel, 0.8 on its last and 0.9 between.
RegionMaps(reg) ==
    UNION {{[p \in Pix |-> IF p \notin reg THEN bg * Grain ELSE 90 * Grain],
            [p \in Pix |-> IF p \notin reg THEN bg * Grain
                           ELSE IF p = FirstPix(reg) THEN 100 * Grain
                           ELSE IF p = LastPix(reg) THEN 80 * Grain
                           ELSE 90 * Grain]} : bg \in {0, 5, 90}}

\* Masks with holes: a 9x9 square with a 3x3 hole in its middle, the same with
\* the hole opened to the outside by a slot, each alone and together with a
\* 3x3 square in the lower half of the image.
Ring(r, c) == Rect(r, c, 9, 9) \ Rect(r + 3, c + 3, 3, 3)
Slotted(r, c) == Rect(r, c, 9, 9) \ Rect(r + 3, c + 3, 6, 3)

\* Rings three pixels thick whose area is below 10% (20%) of the image while
\* the square they enclose is not.
BigRing(r, c) == Rect(r, c, 10, 10) \ Rect(r + 3, c + 3, 4, 4)
WideRing(r, c) == Rect(r, c, 14, 14) \ Rect(r + 3, c + 3, 8, 8)

HoleMasks ==
    LET shapes == {Ring(r, c) : r \in {1, 3}, c \in {1, 3}}
                      \cup {Slotted(r, c) : r \in {1, 3}, c \in {1, 3}}
                      \cup {BigRing(r, r) : r \in {1, 3}}
                      \cup {WideRing(r, r) : r \in {1, 3}}
    IN  shapes \cup {m \cup Rect(20, 20, 3, 3) : m \in shapes}

\* Probabilities for them: 0.9 on the mask above row 16 and lo below it, on a
\* background of 0.
HoleMaps(m) ==
    {[p \in Pix |-> IF p \notin m THEN 0
                    ELSE IF p[1] < 16 THEN hi * Grain ELSE lo * Grain] :
        hi \in {20, 90}, lo \in {20, 90}}

InitRegion ==
    /\ shape = RegionShape
    /\ entry = "post_process_mask"
    /\ pc = "pp_guard"
    /\ \/ mask \in RegionMasks /\ out \in RegionMaps(mask)
       \/ mask \in HoleMasks /\ out \in HoleMaps(mask)
    /\ relaxed \in BOOLEAN
    /\ arg_mask = mask
    /\ Fresh
    /\ ServiceIdle
    /\ runs = 0
    /\ first_run = None

NextRegion ==
    \/ pp_guard
    \/ pp_morph
    \/ pp_label
    \/ pp_filter
    \/ pp_fill

SpecRegion == InitRegion /\ [][NextRegion]_vars

\* ------------------------ predict on one solid block on a uniform background

\* Solid rectangular blocks of side >= 3: sides MaxBlock, MaxBlock + 1 and the
\* 10 of the 10x10 scenario; in a corner, one pixel from a border, two pixels
\* from it, and one pixel from the bottom and right borders.
SolidBlocks ==
    UNION {{Rect(r, c, h, w) :
               r \in {1, 2, 3, shape[1] - h},
               c \in {1, 2, 3, shape[2] - w}} :
           h \in {MaxBlock, MaxBlock + 1, 10}, w \in {MaxBlock, MaxBlock + 1, 10}}

\* High probability on a low background: <<background, block>> in percent.
BlockLevels == {<<5, 95>>, <<20, 60>>}

InitBlock ==
    /\ shape = RegionShape
    /\ entry = "predict"
    /\ pc = "select"
    /\ out \in {BlockMap(l[1], l[2], blk) : l \in BlockLevels, blk \in SolidBlocks}
    /\ relaxed = FALSE
    /\ mask = {}
    /\ arg_mask = None
    /\ Fresh
    /\ ServiceIdle
    /\ runs = 0
    /\ first_run = None

SpecBlock == InitBlock /\ [][Next]_vars

\* ------------------------------------ detect_abnormal_regions called directly

\* 9 x 9 arrays: (n - 1) * 85 and (n - 1) * 90 are divisible by 100.
DetectShape == <<3 * 3, 3 * 3>>

DetectLevels == {<<0, 100>>, <<5, 95>>, <<50, 60>>}

\* Probability maps: uniform, one block on a background, a ramp along the
\* columns, and a block on a ramp.
DetectMaps ==
    {BlockMap(l[1], l[2], blk) :
         l \in DetectLevels,
         blk \in {{}, Rect(3, 3, 3, 3), Rect(1, 1, 2, 2), Rect(5, 2, 1, 6), Rect(4, 4, 1, 1)}}
        \cup {[p \in Pix |-> p[2] * 10 * Grain]}
        \cup {[p \in Pix |-> IF p \in blk THEN 95 * Grain ELSE (p[1] + p[2]) * Grain] :
                  blk \in {Rect(3, 3, 3, 3), Rect(7, 7, 1, 2)}}

\* |gray - blurred| of lines 317-327 depends on the image alone: any
\* non-negative array.  Here: flat, one block of high variation, a ramp.
IntensityDiffs ==
    {[p \in Pix |-> IF p \in blk THEN 50 * Grain ELSE 0] :
         blk \in {{}, Rect(7, 7, 2, 2), Rect(9, 1, 1, 8), Rect(1, 1, 3, 3), Rect(1, 8, 3, 2)}}
        \cup {[p \in Pix |-> (p[1] * 9 + p[2]) * Grain]}

\* lines 314-331: intensity_diff and abnormal_mask1.
detect_method1 ==
    /\ pc = "d_method1"
    /\ intensity_diff' \in IntensityDiffs
    /\ abnormal_masks' = <<Above(intensity_diff', Percentile(intensity_diff', 90))>>
    /\ pc' = "d_method2"
    /\ Stage("method1")
    /\ UNCHANGED service_vars
    /\ UNCHANGED <<shape, entry, out, relaxed, threshold, branch, mask, fb_idx, tried,
                   arg_mask, guard, regions, region_i, filtered_mask, kept_regions, ret,
                   metrics, runs, first_run>>

\* lines 335-340: the Sobel gradient magnitude and abnormal_mask2.
detect_method2 ==
    /\ pc = "d_method2"
    /\ LET g == GradientSquared(out)
       IN  abnormal_masks' = Append(abnormal_masks, Above(g, Percentile(g, 85)))
    /\ pc' = "d_method3"
    /\ Stage("method2")
    /\ UNCHANGED service_vars
    /\ UNCHANGED <<shape, entry, out, relaxed, threshold, branch, mask, fb_idx, tried,
                   arg_mask, guard, regions, region_i, filtered_mask, kept_regions, ret,
                   metrics, runs, first_run, intensity_diff>>

\* lines 343-344: abnormal_mask3.
detect_method3 ==
    /\ pc = "d_method3"
    /\ abnormal_masks' = Append(abnormal_masks, Above(out, Percentile(out, 98)))
    /\ pc' = "d_combine"
    /\ Stage("method3")
    /\ UNCHANGED service_vars
    /\ UNCHANGED <<shape, entry, out, relaxed, threshold, branch, mask, fb_idx, tried,
                   arg_mask, guard, regions, region_i, filtered_mask, kept_regions, ret,
                   metrics, runs, first_run, intensity_diff>>

\* lines 347-350: combined_mask.
detect_combine ==
    /\ pc = "d_combine"
    /\ mask' = CombineMasks(abnormal_masks[1], abnormal_masks[2], abnormal_masks[3])
    /\ pc' = "d_limit"
    /\ Stage("combine")
    /\ UNCHANGED service_vars
    /\ UNCHANGED <<shape, entry, out, relaxed, threshold, branch, fb_idx, tried,
                   arg_mask, guard, regions, region_i, filtered_mask, kept_regions, ret,
                   metrics, runs, first_run, intensity_diff, abnormal_masks>>

\* lines 353-358: the 15% limit and the return.
detect_limit ==
    /\ pc = "d_limit"
    /\ ret' = LimitCombined(mask, out)
    /\ pc' = "d_return"
    /\ Stage("limit")
    /\ UNCHANGED service_vars
    /\ UNCHANGED <<shape, entry, out, relaxed, threshold, branch, mask, fb_idx, tried,
                   arg_mask, guard, regions, region_i, filtered_mask, kept_regions,
                   metrics, runs, first_run, intensity_diff, abnormal_masks>>

InitDetect ==
    /\ shape = DetectShape
    /\ entry = "detect_abnormal_regions"
    /\ pc = "d_method1"
    /\ out \in DetectMaps
    /\ relaxed = FALSE
    /\ mask = {}
    /\ arg_mask = None
    /\ Fresh
    /\ ServiceIdle
    /\ runs = 0
    /\ first_run = None

NextDetect ==
    \/ detect_method1
    \/ detect_method2
    \/ detect_method3
    \/ detect_combine
    \/ detect_limit

SpecDetect == InitDetect /\ [][NextDetect]_vars

\* ------------------------------ predict on maps that are empty or not 2-D

\* Zero-size shapes, 1-D shapes and a 3-D shape.
InvalidShapes ==
    {<<0>>, <<0, GridW>>, <<GridH, 0>>, <<2, 1, 2>>} \cup {<<n>> : n \in 1..MaxBlock}

\* Values at or below 0.02: no threshold or fallback candidate selects a pixel,
\* and post_process_mask returns at line 389 before any OpenCV call.
InvalidLevels == {0, Grain, 2 * Grain}

InitInvalid ==
    /\ shape \in InvalidShapes
    /\ entry = "predict"
    /\ pc = "select"
    /\ out \in [Pix -> InvalidLevels]
    /\ relaxed = FALSE
    /\ mask = {}
    /\ arg_mask = None
    /\ Fresh
    /\ ServiceIdle
    /\ runs = 0
    /\ first_run = None

NextInvalid ==
    \/ predict_raise
    \/ predict_select
    \/ predict_mask
    \/ predict_fallback
    \/ predict_call_pp
    \/ pp_guard
    \/ pp_morph
    \/ predict_return
    \/ segment_metrics

SpecInvalid == InitInvalid /\ [][NextInvalid]_vars

\* ------------------------------------- calculate_metrics called directly

\* Masks passed to calculate_metrics: every pattern inside one inner patch,
\* blocks, and everything but a block.
MetricMasks ==
    (SUBSET Rect(2, 2, MaxBlock, MaxBlock))
        \cup SmallBlocks
        \cup {Pix \ b : b \in SmallBlocks}
        \cup {Pix}

InitMetrics ==
    /\ shape = <<GridH, GridW>>
    /\ entry = "calculate_metrics"
    /\ pc = "metrics"
    /\ out = None
    /\ relaxed = FALSE
    /\ mask \in MetricMasks
    /\ arg_mask = None
    /\ Fresh
    /\ ServiceIdle
    /\ runs = 0
    /\ first_run = None

NextMetrics == segment_metrics

SpecMetrics == InitMetrics /\ [][NextMetrics]_vars

\* ------------------------------------------- several requests in a process

RerunLevels == {0, 5, 30, 60, 95}

RerunMaps ==
    {BlockMap(bg, bg, {}) : bg \in RerunLevels}
        \cup UNION {{BlockMap(bg, fg, blk) : fg \in RerunLevels \ {bg},
                                            blk \in {Rect(1, 1, 2, 2), Rect(3, 3, MaxBlock, MaxBlock)}} :
                        bg \in RerunLevels}

InitRerun ==
    /\ shape = <<GridH, GridW>>
    /\ entry = "predict"
    /\ pc = "select"
    /\ out \in RerunMaps
    /\ relaxed = FALSE
    /\ mask = {}
    /\ arg_mask = None
    /\ Fresh
    /\ ServiceIdle
    /\ runs = 0
    /\ first_run = None

\* segment, lines 530-552: the next request reaches predict with new locals.
\* threshold is unbound until line 269 assigns it: the model leaves the value
\* of the call before in place, and nothing reads it before that assignment.
next_request ==
    /\ pc = "done"
    /\ entry = "predict"
    /\ runs + 1 < MaxRuns
    /\ runs' = runs + 1
    /\ first_run' = IF runs = 0
                        THEN [out |-> out, mask |-> mask, threshold |-> threshold]
                        ELSE first_run
    /\ out' \in RerunMaps
    /\ pc' = "select"
    /\ mask' = {}
    /\ arg_mask' = None
    /\ branch' = "none" /\ fb_idx' = 0
    /\ tried' = << >> /\ guard' = "none" /\ regions' = << >>
    /\ region_i' = 0 /\ filtered_mask' = None /\ kept_regions' = {} /\ ret' = None
    /\ stages' = << >> /\ metrics' = None
    /\ UNCHANGED service_vars
    /\ UNCHANGED <<shape, entry, relaxed, threshold, intensity_diff, abnormal_masks>>

NextRerun == Next \/ next_request

SpecRerun == InitRerun /\ [][NextRerun]_vars

\* -------------------------------------------- predict run to completion

\* Uniform maps, one block, and two blocks in opposite corners.
TermMaps ==
    RerunMaps
        \cup {BlockMap(bg, fg, Rect(1, 1, 2, 2) \cup FarCorner) :
                  bg \in {0, 5, 30}, fg \in {60, 95}}

InitTerm ==
    /\ shape = <<GridH, GridW>>
    /\ entry = "predict"
    /\ pc = "select"
    /\ out \in TermMaps
    /\ relaxed = FALSE
    /\ mask = {}
    /\ arg_mask = None
    /\ Fresh
    /\ ServiceIdle
    /\ runs = 0
    /\ first_run = None

SpecTerm == InitTerm /\ [][Next]_vars

\* ------------------- the three functions called directly, one call each

\* ---------- the live path on the small grids, and calculate_metrics on
\* masks of a few pixels at the resolution of the model's output

\* target_size of preprocess_image: the model's output grid.
PipelineShape == <<256, 256>>

\* Masks of 1 to 16 pixels, alone and with a second component.
RoundMasks ==
    LET rects == {Rect(r, c, h, w) : r \in {1, 100}, c \in {1, 200}, h \in 1..2, w \in 1..8}
    IN  {{}} \cup rects \cup {m \cup Rect(50, 50, 2, 2) : m \in rects}

InitRound ==
    /\ shape = PipelineShape
    /\ entry = "calculate_metrics"
    /\ pc = "metrics"
    /\ out = None
    /\ relaxed = FALSE
    /\ mask \in RoundMasks
    /\ arg_mask = None
    /\ Fresh
    /\ ServiceIdle
    /\ runs = 0
    /\ first_run = None

InitReport == Init \/ InitRound

SpecReport == InitReport /\ [][Next]_vars

\* ------------- the live path together with direct calls in both modes

InitPipelines == Init \/ InitPP

SpecPipelines == InitPipelines /\ [][Next]_vars

InitCalls == InitPP \/ InitMetrics \/ InitDetect

NextCalls ==
    \/ NextPP
    \/ NextMetrics
    \/ NextDetect

SpecCalls == InitCalls /\ [][NextCalls]_vars

\* ------------------------- the web service: /segment requests and get_model

\* The pipeline while no call of it is followed.
PipelineIdle ==
    /\ shape = PipelineShape
    /\ entry = "segment"
    /\ pc = "get_model"
    /\ out = None
    /\ relaxed = FALSE
    /\ mask = {}
    /\ arg_mask = None
    /\ Fresh
    /\ runs = 0
    /\ first_run = None

\* segment, lines 530-542: a request arrives on thread w and calls
\* get_model(model_path).
segment_get_model(w) ==
    /\ workers[w].pc = "idle"
    /\ \E p \in ModelPaths :
          workers' = [workers EXCEPT ![w] = [pc |-> "lookup", model_path |-> p, model |-> 0]]
    /\ UNCHANGED <<_model_cache, loads, reports, session, http>>
    /\ UNCHANGED pipeline_vars

\* get_model, lines 81-83: the test of the cache and the return of the cached
\* model.
get_model_lookup(w) ==
    /\ workers[w].pc = "lookup"
    /\ LET p == workers[w].model_path
       IN  workers' = [workers EXCEPT ![w] =
                          IF _model_cache[p] # 0
                             THEN [@ EXCEPT !.pc = "return", !.model = _model_cache[p]]
                             ELSE [@ EXCEPT !.pc = "load"]]
    /\ UNCHANGED <<_model_cache, loads, reports, session, http>>
    /\ UNCHANGED pipeline_vars

\* get_model, lines 85-192: FileNotFoundError for a missing file, RuntimeError
\* when torch.load raises, otherwise a new model object built from the
\* checkpoint; the object is named by the position of its load in loads.
get_model_load(w) ==
    /\ workers[w].pc = "load"
    /\ LET p == workers[w].model_path
       IN  IF p \in ReadableFiles
              THEN /\ loads' = Append(loads, p)
                   /\ workers' = [workers EXCEPT ![w] =
                                     [@ EXCEPT !.pc = "store", !.model = Len(loads) + 1]]
              ELSE /\ loads' = loads
                   /\ workers' = [workers EXCEPT ![w] = [@ EXCEPT !.pc = "raised"]]
    /\ UNCHANGED <<_model_cache, reports, session, http>>
    /\ UNCHANGED pipeline_vars

\* get_model, lines 194-196: _model_cache[model_path] = model; return model.
get_model_store(w) ==
    /\ workers[w].pc = "store"
    /\ _model_cache' = [_model_cache EXCEPT ![workers[w].model_path] = workers[w].model]
    /\ workers' = [workers EXCEPT ![w] = [@ EXCEPT !.pc = "return"]]
    /\ UNCHANGED <<loads, reports, session, http>>
    /\ UNCHANGED pipeline_vars

\* segment, lines 543-584: the 500 response after an exception of get_model,
\* or the rest of the request with the model it returned; the thread ends.
segment_respond(w) ==
    /\ workers[w].pc \in {"return", "raised"}
    /\ workers' = [workers EXCEPT ![w] = [pc |-> "idle", model_path |-> "", model |-> 0]]
    /\ UNCHANGED <<_model_cache, loads, reports, session, http>>
    /\ UNCHANGED pipeline_vars

\* The service before its first request.
InitService == PipelineIdle /\ ServiceIdle

NextModelCache ==
    \E w \in Requests :
        \/ segment_get_model(w)
        \/ get_model_lookup(w)
        \/ get_model_load(w)
        \/ get_model_store(w)
        \/ segment_respond(w)

SpecModelCache == InitService /\ [][NextModelCache]_vars

\* ------------------- the web service: sessions and the medical reports

\* auth.py, line 17.
SESSION_MAX_AGE_SECONDS == 60 * 60 * 8

\* auth.py, lines 46-107: e-mail -> id of the active doctors (the first two of
\* the seven of AUTHORIZED_DOCTORS).
ACTIVE_DOCTORS == ("dr.smith@hospital.com" :> 1) @@ ("dr.johnson@hospital.com" :> 2)

\* auth.py, lines 109-119: the e-mails of the active receptionists.
ACTIVE_RECEPTIONISTS == {"reception@hospital.com"}

\* The ras_session cookie of a request: absent, not signed with the secret
\* key, or a signed payload of sub and role whose timestamp is age seconds old.
Tokens ==
    {[kind |-> k, sub |-> "", role |-> "", age |-> 0] : k \in {"none", "forged"}}
        \cup [kind : {"signed"},
              sub  : DOMAIN ACTIVE_DOCTORS \cup ACTIVE_RECEPTIONISTS \cup {"nobody@hospital.com"},
              role : {"doctor", "receptionist", "admin"},
              age  : {0, SESSION_MAX_AGE_SECONDS, SESSION_MAX_AGE_SECONDS + 1}]

\* auth.py, lines 133-147: the e-mail of the Doctor or Receptionist object the
\* token stands for, "" where the code returns None.  s.loads raises
\* BadSignature for a token not signed with the key and SignatureExpired for
\* an age above max_age.
_verify_session(token) ==
    IF token.kind # "signed" \/ token.age > SESSION_MAX_AGE_SECONDS THEN ""
    ELSE IF token.role = "doctor"
            THEN IF token.sub \in DOMAIN ACTIVE_DOCTORS THEN token.sub ELSE ""
    ELSE IF token.role = "receptionist"
            THEN IF token.sub \in ACTIVE_RECEPTIONISTS THEN token.sub ELSE ""
    ELSE ""

\* auth.py, lines 341-365: role and id of the UserWrapper, role "none" where
\* the code returns None.
require_auth(token) ==
    LET email == IF token.kind = "none" THEN "" ELSE _verify_session(token)
    IN  IF email = "" THEN [role |-> "none", id |-> 0]
        ELSE IF email \in DOMAIN ACTIVE_DOCTORS
                THEN [role |-> "doctor", id |-> ACTIVE_DOCTORS[email]]
        ELSE IF email \in ACTIVE_RECEPTIONISTS
                THEN [role |-> "receptionist", id |-> 2]
        ELSE [role |-> "none", id |-> 0]

\* A request reaches one of the two report routes.  Of the JSON body the
\* model keeps, for update, the values of doctor_review and
\* ai_generated_report (0 = key absent) and, for create, whether the required
\* fields are there ("ok"), one is missing, or the patient does not exist.
http_request ==
    /\ http.pc = "idle"
    /\ \E route \in {"create", "update"}, token \in Tokens :
          /\ \E id \in 1..(MaxReports + 1), review \in 0..2, ai \in 0..1 :
                http' = [pc |-> "auth", route |-> route, token |-> token,
                         report_id |-> IF route = "update" THEN id ELSE 0,
                         data |-> [doctor_review |-> IF route = "update" THEN review ELSE 0,
                                   ai_generated_report |-> ai],
                         user |-> [role |-> "none", id |-> 0], status |-> 0]
    /\ session' = reports
    /\ UNCHANGED <<_model_cache, loads, workers, reports>>
    /\ UNCHANGED pipeline_vars

\* database.py, lines 315-358: create_medical_report.  The body of a create
\* request is read from data.ai_generated_report: 1 = all required fields and
\* an existing patient, 0 = a required field is missing.
create_medical_report ==
    /\ http.pc = "auth"
    /\ http.route = "create"
    /\ LET user == require_auth(http.token)
           report == [status |-> "pending", is_edited |-> FALSE, doctor_id |-> 0,
                      doctor_review |-> 0, ai_generated_report |-> 0]
           respond(code) == http' = [http EXCEPT !.pc = "idle", !.status = code,
                                                 !.token = [kind |-> "none", sub |-> "",
                                                            role |-> "", age |-> 0],
                                                 !.route = "",
                                                 !.data = [doctor_review |-> 0,
                                                           ai_generated_report |-> 0]]
       IN  IF user.role # "receptionist"
              THEN respond(401) /\ UNCHANGED <<reports, session>>
           ELSE IF http.data.ai_generated_report = 0
              THEN respond(400) /\ UNCHANGED <<reports, session>>
           ELSE \/ /\ Len(reports) < MaxReports
                   /\ reports' = Append(reports, report)
                   /\ session' = reports'
                   /\ respond(201)
                \/ /\ respond(500)
                   /\ UNCHANGED <<reports, session>>
    /\ UNCHANGED <<_model_cache, loads, workers>>
    /\ UNCHANGED pipeline_vars

\* update_auth without the test of the role: any signed-in user passes.
update_auth_AnyUser ==
    /\ http.pc = "auth"
    /\ http.route = "update"
    /\ LET user == require_auth(http.token)
       IN  IF user.role = "none"
              THEN http' = [http EXCEPT !.pc = "idle", !.status = 401, !.route = "",
                                        !.report_id = 0,
                                        !.token = [kind |-> "none", sub |-> "",
                                                   role |-> "", age |-> 0],
                                        !.data = [doctor_review |-> 0,
                                                  ai_generated_report |-> 0]]
              ELSE http' = [http EXCEPT !.pc = "fields", !.user = user]
    /\ UNCHANGED <<_model_cache, loads, workers, reports, session>>
    /\ UNCHANGED pipeline_vars

\* database.py, lines 363-365: update_medical_report, the test of the session.
update_auth ==
    /\ http.pc = "auth"
    /\ http.route = "update"
    /\ LET user == require_auth(http.token)
       IN  IF user.role # "doctor"
              THEN http' = [http EXCEPT !.pc = "idle", !.status = 401, !.route = "",
                                        !.report_id = 0,
                                        !.token = [kind |-> "none", sub |-> "",
                                                   role |-> "", age |-> 0],
                                        !.data = [doctor_review |-> 0,
                                                  ai_generated_report |-> 0]]
              ELSE http' = [http EXCEPT !.pc = "fields", !.user = user]
    /\ UNCHANGED <<_model_cache, loads, workers, reports, session>>
    /\ UNCHANGED pipeline_vars

\* update_fields with the status set by every update, reviewed or not.
update_fields_AlwaysReviewed ==
    /\ http.pc = "fields"
    /\ IF http.report_id \notin DOMAIN session
          THEN /\ http' = [http EXCEPT !.pc = "except"]
               /\ session' = session
          ELSE LET report == session[http.report_id]
                   reviewed == IF http.data.doctor_review # 0
                                  THEN [report EXCEPT !.doctor_review = http.data.doctor_review,
                                                      !.is_edited = TRUE,
                                                      !.doctor_id = http.user.id]
                                  ELSE report
                   updated == [reviewed EXCEPT !.status = "doctor_reviewed",
                                               !.ai_generated_report =
                                                   IF http.data.ai_generated_report # 0
                                                      THEN http.data.ai_generated_report
                                                      ELSE @]
               IN  /\ session' = [session EXCEPT ![http.report_id] = updated]
                   /\ http' = [http EXCEPT !.pc = "commit"]
    /\ UNCHANGED <<_model_cache, loads, workers, reports>>
    /\ UNCHANGED pipeline_vars

\* database.py, lines 367-388: get_or_404, which raises for an id without a
\* row, and the assignments to the fields of the report.
update_fields ==
    /\ http.pc = "fields"
    /\ IF http.report_id \notin DOMAIN session
          THEN /\ http' = [http EXCEPT !.pc = "except"]
               /\ session' = session
          ELSE LET report == session[http.report_id]
                   reviewed == IF http.data.doctor_review # 0
                                  THEN [report EXCEPT !.doctor_review = http.data.doctor_review,
                                                      !.is_edited = TRUE,
                                                      !.doctor_id = http.user.id,
                                                      !.status = "doctor_reviewed"]
                                  ELSE report
                   updated == IF http.data.ai_generated_report # 0
                                 THEN [reviewed EXCEPT !.ai_generated_report =
                                                           http.data.ai_generated_report]
                                 ELSE reviewed
               IN  /\ session' = [session EXCEPT ![http.report_id] = updated]
                   /\ http' = [http EXCEPT !.pc = "commit"]
    /\ UNCHANGED <<_model_cache, loads, workers, reports>>
    /\ UNCHANGED pipeline_vars

\* database.py, lines 390-396: db.session.commit() writes the rows of the
\* session and the handler answers 200, or the database raises.
update_commit ==
    /\ http.pc = "commit"
    /\ \/ /\ reports' = session
          /\ http' = [http EXCEPT !.pc = "idle", !.status = 200, !.route = "",
                                  !.report_id = 0, !.user = [role |-> "none", id |-> 0],
                                  !.token = [kind |-> "none", sub |-> "",
                                             role |-> "", age |-> 0],
                                  !.data = [doctor_review |-> 0, ai_generated_report |-> 0]]
       \/ /\ reports' = reports
          /\ http' = [http EXCEPT !.pc = "except"]
    /\ UNCHANGED <<_model_cache, loads, workers, session>>
    /\ UNCHANGED pipeline_vars

\* database.py, lines 398-400: db.session.rollback() and the 500 response.
update_except ==
    /\ http.pc = "except"
    /\ session' = reports
    /\ http' = [http EXCEPT !.pc = "idle", !.status = 500, !.route = "",
                            !.report_id = 0, !.user = [role |-> "none", id |-> 0],
                            !.token = [kind |-> "none", sub |-> "",
                                       role |-> "", age |-> 0],
                            !.data = [doctor_review |-> 0, ai_generated_report |-> 0]]
    /\ UNCHANGED <<_model_cache, loads, workers, reports>>
    /\ UNCHANGED pipeline_vars

NextReportStore ==
    \/ http_request
    \/ create_medical_report
    \/ update_auth
    \/ update_fields
    \/ update_commit
    \/ update_except

SpecReportStore == InitService /\ [][NextReportStore]_vars

\* ====================================================================
\* Properties
\* ====================================================================

\* 8-adjacency and the components it induces, stated without the labelling.
Adjacent8(p, q) == p # q /\ (p[1] - q[1]) \in -1..1 /\ (p[2] - q[2]) \in -1..1

RECURSIVE Reach8(_, _)
Reach8(R, m) ==
    LET R2 == R \cup {q \in m : \E r \in R : Adjacent8(q, r)}
    IN  IF R2 = R THEN R ELSE Reach8(R2, m)

Components8(m) == {Reach8({p}, m) : p \in m}

\* C1: for every mask, calculate_metrics returns an affected_percentage between
\* 0 and 100 that is 100 * foreground pixels / total pixels rounded to 2
\* decimals (within half a hundredth of the exact quotient).
C1_AffectedPercentage ==
    pc = "done" =>
        LET ap == metrics.affected_percentage
        IN  /\ 0 <= ap /\ ap <= 100 * 100
            /\ 2 * (ap * Size - 10000 * Cardinality(mask)) \in (0 - Size)..Size

C1_Witness ==
    /\ pc = "done"
    /\ entry = "calculate_metrics"
    /\ mask # {} /\ mask # Pix
    /\ metrics.affected_percentage * Size # 10000 * Cardinality(mask)

\* C2: num_regions is the number of 8-connected foreground components,
\* largest_region_mm2 the area of the largest one, tumor_area_mm2 the foreground
\* pixel count, so largest_region_mm2 <= tumor_area_mm2; all three are 0 for an
\* empty mask.
C2_RegionMetrics ==
    pc = "done" =>
        LET comps == Components8(mask)
        IN  /\ metrics.num_regions = Cardinality(comps)
            /\ \A c \in comps : Cardinality(c) <= metrics.largest_region_mm2
            /\ mask # {} => \E c \in comps : Cardinality(c) = metrics.largest_region_mm2
            /\ metrics.tumor_area_mm2 = Cardinality(mask)
            /\ metrics.largest_region_mm2 <= metrics.tumor_area_mm2
            /\ mask = {} => /\ metrics.num_regions = 0
                            /\ metrics.largest_region_mm2 = 0
                            /\ metrics.tumor_area_mm2 = 0

C2_Witness ==
    /\ pc = "done"
    /\ entry = "calculate_metrics"
    /\ metrics.num_regions = 2
    /\ metrics.largest_region_mm2 >= 2
    /\ \E p \in mask, q \in mask :
          Adjacent8(p, q) /\ p[1] # q[1] /\ p[2] # q[2]
             /\ \A r \in mask : ~(Adjacent8(p, r) /\ Adjacent8(r, q))

\* C3: a predict call on the input of the first call of the process returns the
\* mask the first call returned, whatever calls ran in between.
C3_SameInputSameMask ==
    (pc = "done" /\ runs >= 1 /\ out = first_run.out) => mask = first_run.mask

C3_Witness ==
    /\ pc = "done"
    /\ runs = 2
    /\ out = first_run.out
    /\ mask # {}
    /\ threshold # first_run.threshold \/ Len(tried) > 0

\* C4: when every pixel is below 0.3 the low-confidence arm runs and the
\* initial threshold is max(0.1, 80th percentile).
C4_LowConfidence ==
    (pc = "mask" /\ \A p \in Pix : out[p] < Tenths(3)) =>
        /\ branch = "LOW_CONFIDENCE"
        /\ threshold = Max2(Tenths(1), Percentile(out, 80))

C4_Witness ==
    /\ pc = "mask"
    /\ branch = "LOW_CONFIDENCE"
    /\ threshold > Tenths(1)
    /\ Percentile(out, 90) > Percentile(out, 80)

\* C5: when the 95th percentile exceeds 0.9 the over-segmentation arm runs and
\* the initial threshold is max(0.7, 95th percentile), at least 0.7.
C5_OverSegmented ==
    (pc = "mask" /\ Percentile(out, 95) > Tenths(9)) =>
        /\ branch = "OVER_SEGMENTED"
        /\ threshold = Max2(Tenths(7), Percentile(out, 95))
        /\ threshold >= Tenths(7)

C5_Witness ==
    /\ pc = "mask"
    /\ branch = "OVER_SEGMENTED"
    /\ \A p \in Pix : out[p] = Scale
    /\ threshold = Scale

\* C6: when the maximum is at least 0.3 and the 95th percentile at most 0.9 the
\* normal arm runs, the initial threshold is mean + std clamped into
\* [0.3, 0.7], and in the normal arm it always lies in [0.3, 0.7].
C6_Normal ==
    /\ (pc = "mask" /\ (\E p \in Pix : out[p] >= Tenths(3))
                    /\ Percentile(out, 95) <= Tenths(9)) =>
           /\ branch = "NORMAL"
           /\ threshold =
                 IF MeanPlusStd(out) < Tenths(3) THEN Tenths(3)
                 ELSE IF MeanPlusStd(out) > Tenths(7) THEN Tenths(7)
                 ELSE MeanPlusStd(out)
    /\ (pc = "mask" /\ branch = "NORMAL") =>
           Tenths(3) <= threshold /\ threshold <= Tenths(7)

C6_Witness ==
    /\ pc = "mask"
    /\ branch = "NORMAL"
    /\ Tenths(3) < threshold /\ threshold < Tenths(7)

\* The five candidates of the fallback search for an initial threshold t.
Candidate(t, i) == IF i = 5 THEN Tenths(1) ELSE (t * (10 - 2 * i)) \div 10

\* C7: the fallback search runs exactly when the raw mask is empty; it tries
\* threshold*0.8, *0.6, *0.4, *0.2, 0.1 in that order, stops at the first
\* candidate whose mask has a foreground pixel, and that candidate and its
\* mask are what post_process_mask receives.
C7_FallbackSearch ==
    (entry = "predict" /\ pc \in {"call_pp", "pp_guard"}) =>
        LET t0 == ThresholdDecision(out).value
            k  == Len(tried)
        IN  /\ (k > 0) <=> (Above(out, t0) = {})
            /\ k <= 5
            /\ \A i \in 1..k : tried[i] = Candidate(t0, i)
            /\ \A i \in 1..(k - 1) : Above(out, tried[i]) = {}
            /\ (k > 0 /\ k < 5) => Above(out, tried[k]) # {}
            /\ (k > 0 /\ Above(out, tried[k]) # {}) => threshold = tried[k]
            /\ k > 0 => mask = Above(out, tried[k])
            /\ k = 0 => (threshold = t0 /\ mask = Above(out, t0))
            /\ pc = "pp_guard" => arg_mask = mask

C7_Witness ==
    /\ entry = "predict"
    /\ pc = "pp_guard"
    /\ Len(tried) = 3
    /\ arg_mask # {}
    /\ threshold = tried[3]

\* C8: when no fallback candidate selects a pixel the run still ends, with the
\* empty final mask and num_regions = 0; the all-zero map takes the
\* low-confidence arm, tries all five candidates and ends that way.
C8_NothingDetected ==
    LET allFailed == Len(tried) = 5 /\ Above(out, tried[5]) = {}
        allZero   == \A p \in Pix : out[p] = 0
    IN  entry = "predict" =>
            /\ (allFailed /\ pc # "done") => ENABLED Next
            /\ (allFailed /\ pc = "done") =>
                   /\ mask = {}
                   /\ metrics.num_regions = 0
                   /\ metrics.affected_percentage = 0
            /\ (allZero /\ pc # "select") => branch = "LOW_CONFIDENCE"
            /\ (allZero /\ pc = "done") =>
                   /\ Len(tried) = 5
                   /\ mask = {}
                   /\ metrics.num_regions = 0

C8_Witness ==
    /\ pc = "done"
    /\ entry = "predict"
    /\ \A p \in Pix : out[p] = 0
    /\ Len(tried) = 5
    /\ mask = {}
    /\ metrics.num_regions = 0

\* C9: the loop keeps component i of the cleaned mask exactly when
\* min_area < area_i < max_area (both strict) and mean_prob, max_prob over the
\* component pass the gate of the mode: relaxed 0.0001*T, 0.2*T, 0.3, 0.5;
\* strict 0.0005*T, 0.1*T, 0.6, 0.8.
C9_RegionFilter ==
    pc \in {"pp_filter", "pp_fill"} =>
        LET T == Size
            kept(reg) ==
                LET area == Cardinality(reg)
                    sum  == SumOver(reg, out)
                    top  == CHOOSE v \in {out[p] : p \in reg} :
                                \A q \in reg : out[q] <= v
                IN  IF relaxed
                        THEN /\ 10000 * area > T /\ 10 * area < 2 * T
                             /\ 10 * sum > 3 * Scale * area /\ 10 * top > 5 * Scale
                        ELSE /\ 10000 * area > 5 * T /\ 10 * area < T
                             /\ 10 * sum > 6 * Scale * area /\ 10 * top > 8 * Scale
        IN  /\ {regions[i] : i \in 1..Len(regions)} = Components8(mask)
            /\ \A i \in 1..(region_i - 1) : (i \in kept_regions) <=> kept(regions[i])
            /\ kept_regions \subseteq 1..(region_i - 1)
            /\ filtered_mask = UNION {regions[i] : i \in kept_regions}

C9_Witness ==
    /\ pc = "pp_fill"
    /\ ~relaxed
    /\ Len(regions) = 2
    /\ Cardinality(kept_regions) = 1

\* C10: the coverage guard runs before any labelling; it fires exactly when the
\* mask covers more than 30% of T (strict) or 50% of T (relaxed), then replaces
\* the mask by probability > percentile 95 (strict) or 90 (relaxed), and
\* otherwise leaves the mask as it was.
C10_CoverageGuard ==
    /\ pc = "pp_morph" =>
          LET fires == IF relaxed THEN 2 * Cardinality(arg_mask) > Size
                       ELSE 10 * Cardinality(arg_mask) > 3 * Size
          IN  /\ (guard # "skipped") <=> fires
              /\ (fires /\ ~relaxed) => mask = Above(out, Percentile(out, 95))
              /\ (fires /\ relaxed) => mask = Above(out, Percentile(out, 90))
              /\ ~fires => mask = arg_mask
    /\ \A j \in 1..Len(stages) :
          stages[j] = "label" => \E i \in 1..(j - 1) : stages[i] = "guard"

C10_Witness ==
    /\ pc = "pp_morph"
    /\ guard = "strict"
    /\ mask # {}
    /\ mask # arg_mask

\* C11: whenever the coverage guard fires, the mask leaving it covers less than
\* the firing fraction of the mode (30% of T strict, 50% of T relaxed); predict
\* passes the full mask for the uniform map of all 0.95, the guard fires on it
\* and the coverage is below the fraction before the regions are filtered.
C11_GuardReducesCoverage ==
    /\ pc = "pp_morph" =>
          /\ guard = "strict" => 10 * Cardinality(mask) < 3 * Size
          /\ guard = "relaxed" => 2 * Cardinality(mask) < Size
    /\ (pc = "pp_morph" /\ out = Uniform95 /\ arg_mask = Pix) =>
          LET d == ThresholdDecision(out)
          IN  /\ Above(out, d.value) = {}
              /\ Above(out, FallbackCandidates(d.value)[1]) = arg_mask
              /\ guard # "skipped"
              /\ IF relaxed THEN 2 * Cardinality(mask) < Size
                 ELSE 10 * Cardinality(mask) < 3 * Size

C11_Witness ==
    /\ pc = "pp_morph"
    /\ out = Uniform95
    /\ arg_mask = Pix
    /\ guard = "relaxed"
    /\ mask = {}

\* The input mask is one 8-connected region of area 0.01 * T whose mean
\* probability is 0.9.
OneRegionInput ==
    /\ entry = "post_process_mask"
    /\ 100 * Cardinality(arg_mask) = Size
    /\ Components8(arg_mask) = {arg_mask}
    /\ 10 * SumOver(arg_mask, out) = 9 * Scale * Cardinality(arg_mask)

InputMax == CHOOSE v \in {out[p] : p \in arg_mask} : \A q \in arg_mask : out[q] <= v

\* C12 as stated: a single connected region of area 0.01*T and mean probability
\* 0.9 is retained by the relaxed filter, and by the strict filter exactly when
\* its maximum probability exceeds 0.8, whatever the shape of the region.
C12_Original ==
    (pc = "pp_return" /\ OneRegionInput) =>
        IF relaxed THEN arg_mask \subseteq ret
        ELSE (arg_mask \subseteq ret) <=> (10 * InputMax > 8 * Scale)

\* C12 amended: the same, for a region that the opening and closing of the
\* mask leave unchanged.
C12_RetainedWhenCleaningKeepsIt ==
    (pc = "pp_return" /\ OneRegionInput /\ mask = arg_mask) =>
        IF relaxed THEN arg_mask \subseteq ret
        ELSE (arg_mask \subseteq ret) <=> (10 * InputMax > 8 * Scale)

C12_Witness ==
    /\ pc = "pp_return"
    /\ OneRegionInput
    /\ mask = arg_mask
    /\ ~relaxed
    /\ 10 * InputMax > 9 * Scale
    /\ ret = arg_mask

\* The pixels of the map at its highest probability, and whether they form one
\* solid rectangle of side >= 3 on a lower uniform background.
TopPixels == LET top == ArrayMax(out) IN {p \in Pix : out[p] = top}

TopRows == {p[1] : p \in TopPixels}
TopCols == {p[2] : p \in TopPixels}

Contiguous(S) == \A x \in S : x + 1 \in S \/ (\A y \in S : y <= x)

TopIsSolidBlock ==
    LET tp   == TopPixels
        rows == {p[1] : p \in tp}
        cols == {p[2] : p \in tp}
    IN  /\ Cardinality(tp) = Cardinality(rows) * Cardinality(cols)
        /\ Contiguous(rows) /\ Contiguous(cols)
        /\ Cardinality(rows) >= 3 /\ Cardinality(cols) >= 3
        /\ Cardinality(Values(out)) = 2

\* Some side of the block is exactly one pixel away from the image border.
TopOnePixelFromBorder ==
    LET rows == TopRows
        cols == TopCols
    IN  \/ (2 \in rows /\ 1 \notin rows)
        \/ (2 \in cols /\ 1 \notin cols)
        \/ (shape[1] - 1 \in rows /\ shape[1] \notin rows)
        \/ (shape[2] - 1 \in cols /\ shape[2] \notin cols)

\* The scenario's map: 0.95 on a block covering less than 5% of the image
\* (100 of 65536 pixels in the 256x256 scenario), 0.05 elsewhere.
ScenarioMap ==
    /\ Values(out) = {5 * Grain, 95 * Grain}
    /\ TopIsSolidBlock
    /\ 100 * Cardinality(TopPixels) < 5 * Size

\* What predict and calculate_metrics do on the scenario's map, up to the
\* cleaning of the mask.
ScenarioDecisions ==
    /\ pc \notin {"select"} => (branch = "NORMAL" /\ threshold = Tenths(3))
    /\ pc \notin {"select", "mask", "fallback", "call_pp"} =>
           (arg_mask = TopPixels /\ tried = << >>)
    /\ pc \notin {"select", "mask", "fallback", "call_pp", "pp_guard"} =>
           guard = "skipped"

\* C13 as stated: on the scenario's map NORMAL is selected with threshold 0.3,
\* the raw mask is the block, neither fallback nor guard fires, the block comes
\* out unchanged and affected_percentage is its share of the image (0.15 for
\* 100 of 65536 pixels); and every solid block of side >= 3 with high
\* probability on a low background is returned exactly as the final mask.
C13_Original ==
    /\ (entry = "predict" /\ ScenarioMap) =>
           /\ ScenarioDecisions
           /\ pc = "done" =>
                  /\ mask = TopPixels
                  /\ metrics.affected_percentage
                         = RoundHalfEven(Cardinality(TopPixels) * 10000, Size)
    /\ (entry = "predict" /\ pc = "done" /\ TopIsSolidBlock) => mask = TopPixels
    /\ RoundHalfEven(100 * 10000, 256 * 256) = 15

\* C13 amended: the same, for a block no side of which is exactly one pixel
\* away from the image border and whose area is below 20% of T.
C13_BlockReturnedAwayFromBorderGap ==
    /\ (entry = "predict" /\ ScenarioMap) =>
           /\ ScenarioDecisions
           /\ (pc = "done" /\ ~TopOnePixelFromBorder) =>
                  /\ mask = TopPixels
                  /\ metrics.affected_percentage
                         = RoundHalfEven(Cardinality(TopPixels) * 10000, Size)
    /\ (entry = "predict" /\ pc = "done" /\ TopIsSolidBlock
            /\ ~TopOnePixelFromBorder /\ 10 * Cardinality(TopPixels) < 2 * Size)
           => mask = TopPixels
    /\ RoundHalfEven(100 * 10000, 256 * 256) = 15

C13_Witness ==
    /\ entry = "predict"
    /\ pc = "done"
    /\ ScenarioMap
    /\ ~TopOnePixelFromBorder
    /\ branch = "NORMAL"
    /\ \E p \in TopPixels : p[1] = 3
    /\ mask = TopPixels
    /\ metrics.num_regions = 1

\* Background reachable from the image border through 4-adjacent background.
RECURSIVE Flood4(_, _)
Flood4(R, S) ==
    LET N == {q \in S \ R :
                 {<<q[1] - 1, q[2]>>, <<q[1] + 1, q[2]>>,
                  <<q[1], q[2] - 1>>, <<q[1], q[2] + 1>>} \cap R # {}}
    IN  IF N = {} THEN R ELSE Flood4(R \cup N, S)

OpenBackground(U) ==
    LET bg == Pix \ U
    IN  Flood4({p \in bg : p[1] \in {1, shape[1]} \/ p[2] \in {1, shape[2]}}, bg)

\* C14: when the per-region loop has kept at least one region, the returned
\* mask is the union of the kept regions plus exactly the background pixels
\* that do not reach the image border through background; when it has kept
\* none, the returned mask is empty.
C14_UnionWithHolesFilled ==
    (pc = "pp_return" /\ Len(stages) > 0 /\ stages[Len(stages)] = "fill") =>
        LET U == UNION {regions[i] : i \in kept_regions}
        IN  IF kept_regions = {} THEN ret = {}
            ELSE /\ U \subseteq ret
                 /\ ret \ U = (Pix \ U) \ OpenBackground(U)

C14_Witness ==
    /\ pc = "pp_return"
    /\ Len(regions) = 2
    /\ kept_regions = {1}
    /\ Cardinality(ret) = Cardinality(regions[1]) + 9

\* C15: detect_abnormal_regions returns the pixels where intensity_diff exceeds
\* its 90th percentile, or the gradient magnitude of the probability map
\* exceeds its 85th percentile, or the probability exceeds its 98th percentile,
\* when those are at most 15% of the pixels; when they are more, it returns
\* exactly the pixels whose probability exceeds the 99.5th percentile.
C15_DetectorOrWithLimit ==
    pc = "d_return" =>
        LET g   == [p \in Pix |-> SobelX(out, p) * SobelX(out, p)
                                      + SobelY(out, p) * SobelY(out, p)]
            t1  == Percentile(intensity_diff, 90)
            t2  == Percentile(g, 85)
            t3  == Percentile(out, 98)
            t4  == PercentileTenth(out, 995)
            any == {p \in Pix : intensity_diff[p] > t1 \/ g[p] > t2 \/ out[p] > t3}
        IN  IF 100 * Cardinality(any) <= 15 * Size
                THEN ret = any
                ELSE ret = {p \in Pix : out[p] > t4}

C15_Witness ==
    /\ pc = "d_return"
    /\ 100 * Cardinality(mask) > 15 * Size
    /\ ret # {}
    /\ ret # mask
    /\ abnormal_masks[1] # {} /\ abnormal_masks[2] # {} /\ abnormal_masks[3] # {}

\* C16: a probability map with zero elements or that is not 2-D makes the
\* pipeline fail at once: no threshold is selected, no mask and no metrics are
\* produced, and the call is not made again.
C16_InvalidInputFails ==
    (entry = "predict" /\ (Len(shape) # 2 \/ Size = 0)) =>
        /\ pc \in {"select", "failed"}
        /\ threshold = None
        /\ branch = "none"
        /\ runs = 0

\* Position of a stage in the order of the code.
StageRank(name) ==
    CASE name = "select"   -> 1
      [] name = "mask"     -> 2
      [] name = "fallback" -> 3
      [] name = "call_pp"  -> 4
      [] name = "guard"    -> 5
      [] name = "empty"    -> 6
      [] name = "morph"    -> 6
      [] name = "label"    -> 7
      [] name = "filter"   -> 8
      [] name = "fill"     -> 9
      [] name = "return"   -> 10
      [] name = "metrics"  -> 11
      [] OTHER             -> 0

StageCount(name) == Cardinality({i \in 1..Len(stages) : stages[i] = name})

\* No stage is followed by an earlier one; only the two loops repeat a stage.
StagesInOrder ==
    \A i \in 1..Len(stages) : \A j \in (i + 1)..Len(stages) :
        /\ StageRank(stages[i]) <= StageRank(stages[j])
        /\ StageRank(stages[i]) = StageRank(stages[j])
               => stages[i] \in {"fallback", "filter"}

\* The bounds on the two loops and the order of the stages.
LoopsBounded ==
    /\ Len(tried) <= 5
    /\ StageCount("fallback") = Len(tried)
    /\ StageCount("filter") <= Len(regions)
    /\ pc = "pp_filter" => StageCount("filter") = region_i - 1
    /\ pc \in {"pp_fill", "pp_return", "metrics", "done"}
           => StageCount("filter") = Len(regions)
    /\ StagesInOrder

\* A run has taken at most the 9 stages that run once, 5 fallback candidates
\* and one loop iteration per component; before the end it can always go on
\* (the first step has no condition but a non-empty map).
RunBounded ==
    /\ Len(stages) <= 9 + 5 + Len(regions)
    /\ Len(regions) <= Size
    /\ pc = "select" => (Size > 0 /\ stages = << >>)
    /\ pc \notin {"select", "done"} => ENABLED Next
    /\ (pc = "done") <=> (Len(stages) > 0 /\ stages[Len(stages)] = "metrics")

\* C17: every run of the pipeline on a non-empty map ends: each step adds one
\* stage to a run of bounded length that cannot stop before the end; the
\* fallback search evaluates at most 5 candidates, the per-region loop visits
\* each labelled component once, and no stage is followed by an earlier stage.
C17_Terminates ==
    /\ [](LoopsBounded /\ RunBounded)
    /\ [][Len(stages') = Len(stages) + 1]_vars

C17_Witness ==
    /\ pc = "done"
    /\ Len(regions) = 2
    /\ StageCount("filter") = 2
    /\ metrics.num_regions = 2

\* C18: post_process_mask returns the empty mask, without labelling, filtering
\* or hole filling, when the mask is empty after the coverage guard and when
\* it is empty after the opening and closing; it returns early in no other case.
C18_EmptyMaskReturnsEarly ==
    /\ (pc \in {"pp_label", "pp_filter", "pp_fill", "pp_return"} /\ mask = {}) =>
           /\ pc = "pp_return"
           /\ ret = {}
           /\ regions = << >>
           /\ StageCount("label") = 0 /\ StageCount("filter") = 0 /\ StageCount("fill") = 0
           /\ stages \in {<<"guard", "empty">>, <<"guard", "morph">>}
    /\ (Len(stages) > 0 /\ stages[Len(stages)] = "empty") =>
           (mask = {} /\ pc = "pp_return" /\ StageCount("morph") = 0)
    /\ (pc = "pp_return" /\ StageCount("label") = 0) => (mask = {} /\ ret = {})

C18_Witness ==
    /\ pc = "pp_return"
    /\ stages = <<"guard", "morph">>
    /\ guard = "skipped"
    /\ arg_mask # {}
    /\ ret = {}

CoverageAbove(m) ==
    IF relaxed THEN 2 * Cardinality(m) > Size ELSE 10 * Cardinality(m) > 3 * Size

\* C21 as stated: the opening and closing come first and the guard measures
\* the cleaned mask: a guard stage is preceded by a cleaning stage, and the
\* guard fires exactly when the cleaned input mask is above the fraction.
C21_Original ==
    /\ \A j \in 1..Len(stages) :
          stages[j] = "guard" => \E i \in 1..(j - 1) : stages[i] \in {"empty", "morph"}
    /\ (entry = "post_process_mask" /\ pc = "pp_morph") =>
          ((guard # "skipped") <=> CoverageAbove(OpenClose(arg_mask)))

\* C21, amended: the order is guard, cleaner, labelling, per-region decision,
\* hole filling.  The guard measures the mask as it was passed, the opening
\* and closing are applied to the mask the guard leaves, and the components
\* are labelled on the cleaned mask.
C21_GuardBeforeCleaner ==
    /\ \A j \in 1..Len(stages) :
          /\ stages[j] \in {"empty", "morph"} => (j > 1 /\ stages[j - 1] = "guard")
          /\ stages[j] = "label" => (j > 1 /\ stages[j - 1] = "morph")
          /\ stages[j] = "filter" => (j > 1 /\ stages[j - 1] \in {"label", "filter"})
          /\ stages[j] = "fill" => (j > 1 /\ stages[j - 1] = "filter")
          /\ stages[j] = "guard" =>
                 \A i \in 1..(j - 1) : stages[i] \notin {"empty", "morph", "label", "filter", "fill"}
    /\ (entry = "post_process_mask" /\ pc \in {"pp_morph", "pp_label", "pp_filter", "pp_fill"}) =>
          LET guarded == IF ~CoverageAbove(arg_mask) THEN arg_mask
                         ELSE IF relaxed THEN Above(out, Percentile(out, 90))
                         ELSE Above(out, Percentile(out, 95))
          IN  /\ (guard # "skipped") <=> CoverageAbove(arg_mask)
              /\ pc = "pp_morph" => mask = guarded
              /\ pc # "pp_morph" => mask = OpenClose(guarded)
              /\ pc \in {"pp_filter", "pp_fill"} => regions = ConnectedComponents(mask)

C21_Witness ==
    /\ entry = "post_process_mask"
    /\ pc = "pp_filter"
    /\ guard # "skipped"
    /\ ~CoverageAbove(OpenClose(arg_mask))
    /\ OpenClose(arg_mask) = {}
    /\ Len(regions) > 0

\* area < max_area for an area of so many pixels.
BelowMaxArea(area) == IF relaxed THEN 10 * area < 2 * Size ELSE 10 * area < Size

\* C22 as stated: no connected component of the returned mask has an area of
\* max_area or more.
C22_Original ==
    (entry = "post_process_mask" /\ pc = "pp_return") =>
        LET cc == ConnectedComponents(ret)
        IN  \A i \in 1..Len(cc) : BelowMaxArea(Cardinality(cc[i]))

\* C22, amended: every component the loop keeps has min_area < area < max_area
\* as labelled on the cleaned mask; the returned mask adds to the kept
\* components only pixels that were background of the cleaned mask, and each
\* of its components contains a kept component; the filled holes count towards
\* no bound.
C22_KeptRegionsBelowMaxArea ==
    (entry = "post_process_mask" /\ pc = "pp_return"
        /\ Len(stages) > 0 /\ stages[Len(stages)] = "fill") =>
        LET U  == UNION {regions[i] : i \in kept_regions}
            cc == ConnectedComponents(ret)
        IN  /\ \A i \in kept_regions :
                  /\ BelowMaxArea(Cardinality(regions[i]))
                  /\ 10000 * Cardinality(regions[i]) > (IF relaxed THEN 1 ELSE 5) * Size
            /\ \A i \in 1..Len(regions) :
                  (i \notin kept_regions /\ GateOk(out, regions[i], relaxed)) =>
                      \/ ~BelowMaxArea(Cardinality(regions[i]))
                      \/ 10000 * Cardinality(regions[i]) <= (IF relaxed THEN 1 ELSE 5) * Size
            /\ U \subseteq ret
            /\ (ret \ U) \cap mask = {}
            /\ \A j \in 1..Len(cc) : \E i \in kept_regions : regions[i] \subseteq cc[j]

C22_Witness ==
    /\ entry = "post_process_mask"
    /\ pc = "pp_return"
    /\ kept_regions = {1}
    /\ Len(regions) = 1
    /\ BelowMaxArea(Cardinality(regions[1]))
    /\ ~BelowMaxArea(Cardinality(ret))
    /\ Len(ConnectedComponents(ret)) = 1

C24_LowMaximumEmptyMask ==
    /\ (pc \in {"pp_return", "metrics", "done"}
           /\ ArrayMax(out) <= (IF relaxed THEN Tenths(5) ELSE Tenths(8))) =>
          (ret = {} /\ (pc # "pp_return" => mask = {}))
    /\ (entry = "predict" /\ pc \in {"pp_return", "metrics", "done"}) => relaxed
    /\ (entry = "predict" /\ pc \in {"metrics", "done"} /\ branch = "LOW_CONFIDENCE") =>
          (ArrayMax(out) < Tenths(3) /\ mask = {})

C24_Witness ==
    /\ entry = "predict"
    /\ pc = "done"
    /\ ArrayMax(out) <= Tenths(5)
    /\ Len(regions) = 1
    /\ RegionMeanAbove(out, regions[1], 3)
    /\ kept_regions = {}
    /\ mask = {}
    /\ metrics.num_regions = 0

\* C25: for a probability map with one value everywhere the live pipeline
\* returns the empty mask: the mask passed to post_process_mask is empty (no
\* threshold or fallback candidate selects a pixel) or covers the whole image,
\* and then the relaxed guard fires and probability > percentile 90 is empty;
\* no component is ever labelled.
C25_UniformMapEmptyMask ==
    (entry = "predict" /\ Cardinality(Values(out)) = 1
        /\ pc \in {"pp_guard", "pp_morph", "pp_label", "pp_filter", "pp_fill",
                   "pp_return", "metrics", "done"}) =>
        /\ arg_mask \in {{}, Pix}
        /\ pc \notin {"pp_label", "pp_filter", "pp_fill"}
        /\ pc # "pp_guard" =>
              /\ guard = (IF arg_mask = Pix THEN "relaxed" ELSE "skipped")
              /\ Above(out, Percentile(out, 90)) = {}
              /\ mask = {}
        /\ pc \in {"pp_return", "metrics", "done"} =>
              (ret = {} /\ stages[Len(stages) - (IF pc = "pp_return" THEN 0
                                                  ELSE IF pc = "metrics" THEN 1 ELSE 2)] = "empty")
        /\ pc = "done" => (metrics.num_regions = 0 /\ metrics.affected_percentage = 0)

C25_Witness ==
    /\ entry = "predict"
    /\ Cardinality(Values(out)) = 1
    /\ pc = "done"
    /\ arg_mask = Pix
    /\ Len(tried) = 4
    /\ guard = "relaxed"
    /\ mask = {}

\* C26: the mask detect_abnormal_regions returns covers at most 15% of the
\* pixels.
C26_DetectorAtMostFifteenPercent ==
    (entry = "detect_abnormal_regions" /\ pc = "d_return") =>
        100 * Cardinality(ret) <= 15 * Size

C26_Witness ==
    /\ entry = "detect_abnormal_regions"
    /\ pc = "d_return"
    /\ 100 * Cardinality(mask) > 15 * Size
    /\ Cardinality(ret) = 1
    /\ ret \subseteq mask

\* C27: in the live pipeline every kept region has more than 0.0001 * T
\* pixels and a non-empty final mask contains a kept region; for the final
\* mask of the pipeline, and for every mask that is empty or has more than
\* 0.0001 * T pixels, affected_percentage = 0, num_regions = 0,
\* tumor_area_mm2 = 0 and the mask being empty are equivalent: at 256x256 a
\* mask of 7 pixels is reported as 0.01%.
C27_MetricsConsistent ==
    /\ (entry = "predict" /\ pc \in {"pp_return", "metrics", "done"}) =>
          /\ \A i \in kept_regions : 10000 * Cardinality(regions[i]) > Size
          /\ ret # {} => \E i \in kept_regions : regions[i] \subseteq ret
    /\ (pc = "done" /\ (entry = "predict" \/ mask = {} \/ 10000 * Cardinality(mask) > Size)) =>
          /\ (metrics.affected_percentage = 0) <=> (metrics.num_regions = 0)
          /\ (metrics.num_regions = 0) <=> (metrics.tumor_area_mm2 = 0)
          /\ (metrics.tumor_area_mm2 = 0) <=> (mask = {})

C27_Witness ==
    /\ pc = "done"
    /\ shape = PipelineShape
    /\ Cardinality(mask) = 7
    /\ metrics.affected_percentage = 1
    /\ metrics.num_regions = 1

\* C28: get_model loads the checkpoint of a model_path at most once, also when
\* several requests ask for the same uncached path at the same time: no path
\* occurs twice among the loads, and a request that got a model from get_model
\* holds the object the cache holds for its path.
C28_LoadedAtMostOnce ==
    /\ \A p \in ModelPaths : Cardinality({i \in 1..Len(loads) : loads[i] = p}) <= 1
    /\ \A w \in Requests :
          workers[w].pc = "return" =>
              workers[w].model = _model_cache[workers[w].model_path]

\* C29: update_medical_report changes a committed report only for a request
\* whose cookie is a signed, unexpired session of an active doctor; a request
\* with no cookie, a forged or expired one or a receptionist's session is
\* answered 401 with every report unchanged; a request that raises after it
\* assigned fields is rolled back and answered 500, and no request ends with
\* uncommitted changes in its session.
C29_OnlyDoctorsUpdate ==
    [][LET t == http.token
           doctor == /\ t.kind = "signed"
                     /\ t.age <= SESSION_MAX_AGE_SECONDS
                     /\ t.role = "doctor"
                     /\ t.sub \in DOMAIN ACTIVE_DOCTORS
       IN  http.route = "update" =>
               /\ reports' # reports => doctor
               /\ (http.pc = "auth" /\ ~doctor) =>
                      /\ http'.pc = "idle" /\ http'.status = 401
                      /\ reports' = reports /\ session' = session
               /\ (http.pc = "commit" /\ http'.pc = "except") => reports' = reports
               /\ http.pc = "except" =>
                      /\ http'.status = 500
                      /\ reports' = reports /\ session' = reports
               /\ http'.pc = "idle" => session' = reports'
      ]_vars

\* A doctor's update of a reviewed report has assigned its fields in the
\* session and the commit has raised: the rollback is about to run.
C29_Witness ==
    /\ http.pc = "except"
    /\ http.route = "update"
    /\ http.report_id \in DOMAIN reports
    /\ session # reports
    /\ reports[http.report_id].status = "doctor_reviewed"

====
